---- MODULE Spec2Model ----
(***************************************************************************)
(* Model of the Miniflux synchronisation engine of minikyu                 *)
(* (src-tauri/src/commands/sync.rs) over the SQLite schema of              *)
(* src-tauri/src/database/migrations.rs.                                   *)
(*                                                                         *)
(* The local store is the four tables categories, feeds, entries, icons    *)
(* and the sync_state table.  The remote server is the environment: its    *)
(* rows change through the Remote* actions.  One execution of the          *)
(* sync_miniflux command is a sequence of steps, one per awaited database  *)
(* statement or HTTP call, tracked by run.pc.                              *)
(***************************************************************************)
EXTENDS Integers, Sequences, FiniteSets, TLC

(***************************************************************************)
(* Bounds of the model                                                     *)
(***************************************************************************)
MaxCategoryId == 1
MaxFeedId == 2
MaxEntryId == 2
\* number of entries of a bulk import on the remote (more than a page)
BulkSize == 201
\* number of times the clock advances in one behaviour
MaxTicks == 2
\* number of changes the remote makes in one behaviour
MaxRemoteChanges == 1
\* number of executions of the sync command in one behaviour
MaxRuns == 2
\* number of concurrent calls of get_or_create_sync_state
MaxCallers == 3
\* number of calls of run_migrations in one behaviour
MaxMigrationRuns == 2
\* calls of download_file in a behaviour
MaxDownloads == 2

(***************************************************************************)
(* Program constants                                                       *)
(***************************************************************************)
\* SyncWindow::default().limit
WindowLimit == 200
\* seconds in one hour of zone offset
HourSeconds == 60 * 60

\* the user the Miniflux client is authenticated as, and the owner of rows
\* that an earlier account left in the local store
RemoteUser == 1
OtherUser == 2
\* bulk-imported entries have the ids 1..BulkSize, the other entries the
\* ids above EntryBase: the server lists them before the bulk-imported ones
EntryBase == BulkSize
\* id of the category, feed, entry and icon the earlier account left
OtherId == EntryBase + MaxEntryId + 1
CategoryIds == 1..MaxCategoryId
FeedIds == 1..MaxFeedId
EntryIds == (EntryBase + 1)..(EntryBase + MaxEntryId)
TzOffsets == {-1, 0, 1}

(***************************************************************************)
(* Option<T>: None is the empty sequence, Some(x) the one-element sequence *)
(***************************************************************************)
None == << >>
Some(x) == << x >>
IsNone(o) == Len(o) = 0
IsSome(o) == Len(o) = 1
Unwrap(o) == o[1]

Min(a, b) == IF a <= b THEN a ELSE b

(***************************************************************************)
(* RFC 3339 timestamp strings.  A string "YYYY-MM-DDTHH:MM:SS[.f]zone" is  *)
(* the record [local, frac, zone]: local is the wall-clock second count    *)
(* the fixed-width date-time prefix denotes, frac the digits after the     *)
(* decimal point and zone the zone designator.  An instant is a number of  *)
(* tenths of a second.                                                     *)
(***************************************************************************)
ZoneOffsetHours(zone) ==
    CASE zone = "Z" -> 0
      [] zone = "+00:00" -> 0
      [] zone = "+01:00" -> 1
      [] zone = "-01:00" -> -1

\* the characters of a zone designator, as ASCII codes
ZoneChars(zone) ==
    CASE zone = "Z" -> << 90 >>
      [] zone = "+00:00" -> << 43, 48, 48, 58, 48, 48 >>
      [] zone = "+01:00" -> << 43, 48, 49, 58, 48, 48 >>
      [] zone = "-01:00" -> << 45, 48, 49, 58, 48, 48 >>

\* the characters after the seconds field, as ASCII codes
TailChars(ts) ==
    (IF ts.frac = << >> THEN << >>
     ELSE << 46 >> \o [i \in 1..Len(ts.frac) |-> 48 + ts.frac[i]])
    \o ZoneChars(ts.zone)

\* byte-wise comparison of two character sequences (SQLite BINARY collation)
RECURSIVE CharsLess(_, _)
CharsLess(a, b) ==
    IF b = << >> THEN FALSE
    ELSE IF a = << >> THEN TRUE
    ELSE IF Head(a) # Head(b) THEN Head(a) < Head(b)
    ELSE CharsLess(Tail(a), Tail(b))

\* a >= b as TEXT values
TextGeq(a, b) ==
    \/ a.local > b.local
    \/ a.local = b.local /\ ~CharsLess(TailChars(a), TailChars(b))

\* the instant a timestamp string denotes, in tenths of a second
InstantOf(ts) ==
    (ts.local - HourSeconds * ZoneOffsetHours(ts.zone)) * 10
    + (IF ts.frac = << >> THEN 0 ELSE ts.frac[1])

\* chrono: DateTime<Utc>::to_rfc3339() of the instant t
to_rfc3339(t) ==
    [local |-> t \div 10,
     frac |-> IF t % 10 = 0 THEN << >> ELSE << t % 10, 0, 0 >>,
     zone |-> "+00:00"]

\* the remote's rendering of the instant t in the zone of offset tz hours
RemoteTime(t, tz) ==
    [local |-> t \div 10 + HourSeconds * tz,
     frac |-> IF t % 10 = 0 THEN << >> ELSE << t % 10 >>,
     zone |-> CASE tz = 0 -> "Z" [] tz = 1 -> "+01:00" [] tz = -1 -> "-01:00"]

\* text that is no RFC 3339 timestamp: a date and time without a zone
Unparsable == [local |-> 0, frac |-> << >>, zone |-> ""]

\* parse_rfc3339_to_epoch: whole seconds since the epoch, or the error of
\* DateTime::parse_from_rfc3339
parse_rfc3339_to_epoch(ts) ==
    IF ts.zone \in {"Z", "+00:00", "+01:00", "-01:00"}
    THEN [ok |-> TRUE,
          value |-> ts.local - HourSeconds * ZoneOffsetHours(ts.zone)]
    ELSE [ok |-> FALSE, value |-> 0]

(***************************************************************************)
(* State                                                                   *)
(***************************************************************************)
VARIABLES
    categories,        \* local table categories: set of rows
    feeds,             \* local table feeds
    entries,           \* local table entries
    icons,             \* local table icons
    sync_state,        \* local table sync_state: sequence of rows
    remote_categories, \* the server's categories (all users)
    remote_feeds,      \* the server's feeds
    remote_entries,    \* the server's entries, in the order it lists them
    clock,             \* current instant, tenths of a second
    run,               \* the executing sync command: position and locals
    result,            \* what the last finished sync command returned
    hist,              \* history of the behaviour (not program state)
    schema,            \* names of the tables and indexes of the database
    schema_versions,   \* local table schema_versions: set of rows
    miniflux_accounts, \* local table miniflux_accounts: set of rows
    keyring,           \* credentials stored in the keyring
    downloads,         \* local table downloads: set of rows
    active_downloads,  \* DownloadManager.active_downloads: list of states
    download_id_counter \* DOWNLOAD_ID_COUNTER

vars == << categories, feeds, entries, icons, sync_state, remote_categories,
           remote_feeds, remote_entries, clock, run, result, hist,
           schema, schema_versions, miniflux_accounts, keyring,
           downloads, active_downloads, download_id_counter >>

store == << categories, feeds, entries, icons >>
remote == << remote_categories, remote_feeds, remote_entries >>
\* the downloads table and the state of the download manager
download_vars == << downloads, active_downloads, download_id_counter >>
\* what the sync command does not touch: the tables and indexes of the
\* database, its schema_versions and miniflux_accounts tables, the
\* credentials in the keyring of the operating system, and the downloads
others == << schema, schema_versions, miniflux_accounts, keyring,
            download_vars >>

Ids(rows) == {r.id : r \in rows}
Keys(rows) == {[id |-> r.id, user_id |-> r.user_id] : r \in rows}
SeqToSet(s) == {s[i] : i \in 1..Len(s)}

\* apply_initial_schema and apply_v2_schema: the objects their statements
\* create, in statement order
InitialSchema ==
    << "categories", "feeds", "icons", "entries", "enclosures", "tags",
       "users", "miniflux_accounts", "sync_state", "sync_queue",
       "podcast_progress", "idx_entries_feed_id", "idx_entries_status",
       "idx_entries_starred", "idx_entries_published_at",
       "idx_entries_user_status", "idx_enclosures_entry_id",
       "idx_enclosures_media_type", "idx_sync_queue_status",
       "idx_feeds_category_id", "idx_feeds_user_id",
       "idx_categories_user_id" >>

V2Schema == << "downloads", "idx_downloads_status", "idx_downloads_url" >>

SchemaVersion(version, migration_name, applied_at) ==
    [version |-> version, migration_name |-> migration_name,
     applied_at |-> applied_at]

\* the database the commands work on: run_migrations has completed (at
\* instant 0), no account has been saved
Migrated ==
    /\ schema = {"schema_versions"} \cup SeqToSet(InitialSchema)
                   \cup SeqToSet(V2Schema)
    /\ schema_versions =
          {SchemaVersion(1, "initial_schema", to_rfc3339(0)),
           SchemaVersion(2, "add_downloads_table", to_rfc3339(0))}
    /\ miniflux_accounts = {}
    /\ keyring = {}
    /\ downloads = {}
    /\ active_downloads = << >>
    /\ download_id_counter = 0

\* the rows of a set, as a list in increasing id order
RECURSIVE SortById(_)
SortById(rows) ==
    IF rows = {} THEN << >>
    ELSE LET r == CHOOSE x \in rows : \A y \in rows : x.id <= y.id
         IN << r >> \o SortById(rows \ {r})

(***************************************************************************)
(* SQL statements of sync.rs, as functions of the tables.  A statement     *)
(* that can fail returns [ok, rows]; a failed statement changes nothing.   *)
(* Foreign keys are enforced (PRAGMA foreign_keys = ON): feeds.category_id *)
(* -> categories.id, entries.feed_id -> feeds.id, icons.feed_id ->         *)
(* feeds.id, none of them with a CASCADE action.                           *)
(***************************************************************************)
Ok(rows) == [ok |-> TRUE, rows |-> rows]
Failed(rows) == [ok |-> FALSE, rows |-> rows]

\* UPDATE categories SET sync_status = 'stale' WHERE user_id = ?
mark_categories_stale(cats, user_id) ==
    {IF c.user_id = user_id THEN [c EXCEPT !.sync_status = "stale"] ELSE c
       : c \in cats}

\* UPDATE feeds SET sync_status = 'stale' WHERE user_id = ?
mark_feeds_stale(fds, user_id) ==
    {IF f.user_id = user_id THEN [f EXCEPT !.sync_status = "stale"] ELSE f
       : f \in fds}

\* mark_entries_stale that marks nothing
mark_entries_stale_Noop(ents, user_id) == ents

\* UPDATE entries SET sync_status = 'stale' WHERE user_id = ?
mark_entries_stale(ents, user_id) ==
    {IF e.user_id = user_id THEN [e EXCEPT !.sync_status = "stale"] ELSE e
       : e \in ents}

\* a row of the local table for a row the remote sent
Synced(r) ==
    [x \in DOMAIN r \cup {"sync_status"} |->
        IF x = "sync_status" THEN "synced" ELSE r[x]]

\* Upsert whose ON CONFLICT clause leaves sync_status as it is
Upsert_KeepSyncStatus(rows, list) ==
    LET ids == {list[i].id : i \in 1..Len(list)}
        Old(id) == CHOOSE r \in rows : r.id = id
        incoming == {IF list[i].id \in Ids(rows)
                     THEN [Synced(list[i]) EXCEPT
                             !.sync_status = Old(list[i].id).sync_status]
                     ELSE Synced(list[i]) : i \in 1..Len(list)}
    IN {r \in rows : r.id \notin ids} \cup incoming

\* INSERT ... VALUES <list> ON CONFLICT(id) DO UPDATE SET ..., sync_status = 'synced'
\* (the ids of one list are distinct)
Upsert(rows, list) ==
    {r \in rows : \A i \in 1..Len(list) : list[i].id # r.id}
    \cup {Synced(list[i]) : i \in 1..Len(list)}

\* push_values over an empty slice leaves "VALUES" without a tuple, which
\* SQLite rejects
upsert_categories(cats, list) ==
    IF Len(list) = 0 THEN Failed(cats)
    ELSE Ok(Upsert(cats, list))

upsert_feeds(fds, cats, list) ==
    IF Len(list) = 0 THEN Failed(fds)
    ELSE IF \E i \in 1..Len(list) :
              IsSome(list[i].category_id)
              /\ Unwrap(list[i].category_id) \notin Ids(cats)
         THEN Failed(fds)
    ELSE Ok(Upsert(fds, list))

upsert_entries(ents, fds, list) ==
    IF Len(list) = 0 THEN Ok(ents)
    ELSE IF \E i \in 1..Len(list) : list[i].feed_id \notin Ids(fds)
         THEN Failed(ents)
    ELSE Ok(Upsert(ents, list))

\* the delete that removes nothing
delete_stale_entries_Noop(ents, user_id) == ents

\* DELETE FROM entries WHERE user_id = ? AND sync_status = 'stale'
delete_stale_entries(ents, user_id) ==
    {e \in ents : ~(e.user_id = user_id /\ e.sync_status = "stale")}

\* DELETE FROM feeds of the rows in doomed: fails while an entry or an icon
\* references one of them
DeleteFeeds(fds, ents, icns, doomed) ==
    IF \/ \E e \in ents : e.feed_id \in Ids(doomed)
       \/ \E i \in icns : i.feed_id \in Ids(doomed)
    THEN Failed(fds)
    ELSE Ok(fds \ doomed)

\* DELETE FROM categories of the rows in doomed: fails while a feed
\* references one of them
DeleteCategories(cats, fds, doomed) ==
    IF \E f \in fds : IsSome(f.category_id)
                      /\ Unwrap(f.category_id) \in Ids(doomed)
    THEN Failed(cats)
    ELSE Ok(cats \ doomed)

delete_stale_feeds(fds, ents, icns, user_id) ==
    DeleteFeeds(fds, ents, icns,
        {f \in fds : f.user_id = user_id /\ f.sync_status = "stale"})

delete_stale_categories(cats, fds, user_id) ==
    DeleteCategories(cats, fds,
        {c \in cats : c.user_id = user_id /\ c.sync_status = "stale"})

\* DELETE FROM categories WHERE user_id = ? [AND id NOT IN (...)]
delete_removed_categories(cats, fds, user_id, category_ids) ==
    IF Len(category_ids) = 0
    THEN DeleteCategories(cats, fds, {c \in cats : c.user_id = user_id})
    ELSE DeleteCategories(cats, fds,
            {c \in cats : c.user_id = user_id
                          /\ c.id \notin SeqToSet(category_ids)})

\* DELETE FROM feeds WHERE user_id = ? [AND id NOT IN (...)]
delete_removed_feeds(fds, ents, icns, user_id, feed_ids) ==
    IF Len(feed_ids) = 0
    THEN DeleteFeeds(fds, ents, icns, {f \in fds : f.user_id = user_id})
    ELSE DeleteFeeds(fds, ents, icns,
            {f \in fds : f.user_id = user_id
                         /\ f.id \notin SeqToSet(feed_ids)})

\* an incremental pull without the changed_after filter
ChangedAfter_NoFilter(state) == None

\* unwrap_or(0) in place of ok(): a timestamp that does not parse counts as
\* the epoch
ChangedAfter_EpochOnError(state) ==
    IF IsNone(state.last_sync_at) THEN None
    ELSE Some(parse_rfc3339_to_epoch(Unwrap(state.last_sync_at)).value)

\* state.last_sync_at.and_then(|t| parse_rfc3339_to_epoch(t).ok())
ChangedAfter(state) ==
    IF IsNone(state.last_sync_at) THEN None
    ELSE LET parsed == parse_rfc3339_to_epoch(Unwrap(state.last_sync_at))
         IN IF parsed.ok THEN Some(parsed.value) ELSE None

\* Utc.timestamp_opt(changed_after, 0).single().to_rfc3339()
Threshold(changed_after) == to_rfc3339(changed_after * 10)

\* DELETE FROM entries WHERE user_id = ? AND status = 'removed'
\*   AND (changed_at IS NOT NULL AND changed_at >= ?)
delete_removed_entries(ents, user_id, state) ==
    IF IsNone(ChangedAfter(state)) THEN ents
    ELSE {e \in ents :
            ~(/\ e.user_id = user_id
              /\ e.status = "removed"
              /\ IsSome(e.changed_at)
              /\ TextGeq(Unwrap(e.changed_at),
                         Threshold(Unwrap(ChangedAfter(state)))))}

(***************************************************************************)
(* The remote server (the environment).  It lists to this client the rows  *)
(* of the authenticated user; entries are listed in a fixed total order    *)
(* (decreasing id stands for published_at desc).                           *)
(***************************************************************************)
FeedOf(e) == IF e <= EntryBase THEN 1 ELSE ((e - EntryBase - 1) % MaxFeedId) + 1

RCategory(c) == [id |-> c, user_id |-> RemoteUser]
RFeed(f, c) == [id |-> f, user_id |-> RemoteUser, category_id |-> Some(c)]
REntry(e, status, ts) ==
    [id |-> e, user_id |-> RemoteUser, feed_id |-> FeedOf(e),
     status |-> status, changed_at |-> Some(ts)]

\* the entries of a set, as the server lists them
RECURSIVE SortDesc(_)
SortDesc(rows) ==
    IF rows = {} THEN << >>
    ELSE LET r == CHOOSE x \in rows : \A y \in rows : x.id >= y.id
         IN << r >> \o SortDesc(rows \ {r})

BulkRows(t) ==
    [i \in 1..BulkSize |->
        REntry(BulkSize + 1 - i, "unread", RemoteTime(t, 0))]

InsertEntry(list, row) ==
    SelectSeq(list, LAMBDA x : x.id > row.id) \o << row >>
    \o SelectSeq(list, LAMBDA x : x.id < row.id)

\* GET /v1/me
get_current_user == [id |-> RemoteUser]

\* GET /v1/categories
get_categories == SortById(remote_categories)

\* GET /v1/feeds
get_feeds == SortById(remote_feeds)

\* GET /v1/entries?offset=&limit=&order=published_at&direction=desc[&changed_after=]
\* The server sends at most page_cap rows in one response.
get_entries(filters) ==
    LET matching ==
            IF IsNone(filters.changed_after) THEN remote_entries
            ELSE SelectSeq(remote_entries,
                    LAMBDA e : InstantOf(Unwrap(e.changed_at))
                               > Unwrap(filters.changed_after) * 10)
    IN [total |-> Len(matching),
        entries |-> SubSeq(matching, filters.offset + 1,
                           Min(filters.offset
                                 + Min(filters.limit, hist.page_cap),
                               Len(matching)))]

(***************************************************************************)
(* Initial state: the local store is as the migrations leave it, except    *)
(* that an earlier account has left its rows.  The server holds either any *)
(* consistent small collection or a large one (every category, feed and    *)
(* entry of the model and a bulk import), last changed at instant 0.       *)
(***************************************************************************)
IdleRun ==
    [pc |-> "idle", now |-> 0, is_full_sync |-> FALSE,
     sync_state |-> None, user_id |-> 0,
     categories |-> << >>, category_ids |-> << >>,
     feeds |-> << >>, feed_ids |-> << >>,
     offset |-> 0, total_seen |-> 0, page |-> << >>, total |-> 0,
     summary |-> [entries_pulled |-> 0, entries_pushed |-> 0,
                  feeds_pulled |-> 0, categories_pulled |-> 0],
     error |-> "",
     \* invocations of the command waiting for the client lock, and
     \* whether the executing one had to wait for it
     waiting |-> 0, waited |-> FALSE,
     \* the events the executing invocation has emitted
     events |-> << >>]

NoResult == [status |-> "none", summary |-> IdleRun.summary, error |-> ""]

\* invoked: invocations of the command; runs: those that got the client
\* lock; remote_changes, change_limit: number of changes the server has
\* made, and may make, in the behaviour; remote_changed: the server changed during the current run;
\* changed_since_success: the server changed after the run that last
\* succeeded had started its last request; pre_*: keys of the rows in the
\* store when the run started; pulled, received, requests: ids and number
\* of the entry rows the run received, and number of its entry requests;
\* upserted: the entry rows the run upserted, as it last wrote them;
\* changed_after: the changed_after filter of the run's latest entry request
InitHist ==
    [invoked |-> 0, runs |-> 0, successes |-> 0, remote_changes |-> 0,
     change_limit |-> MaxRemoteChanges, remote_changed |-> FALSE, changed_since_success |-> FALSE,
     injected |-> FALSE,
     pre_categories |-> {}, pre_feeds |-> {}, pre_entries |-> {},
     pulled |-> {}, received |-> 0, requests |-> 0, upserted |-> {},
     changed_after |-> None,
     \* the run whose error update failed last (0: none has)
     write_failed |-> 0,
     \* the most rows the server sends in one response
     page_cap |-> WindowLimit,
     \* the rows that were stale when the run started, if the run before
     \* it was a full sync that failed
     stale_left |-> None,
     \* the instant the run that last succeeded had captured at its start
     success_started |-> None]

OtherRows ==
    [categories |-> {[id |-> OtherId, user_id |-> OtherUser,
                      sync_status |-> "synced"]},
     feeds |-> {[id |-> OtherId, user_id |-> OtherUser,
                 category_id |-> Some(OtherId), sync_status |-> "synced"]},
     entries |-> {[id |-> OtherId, user_id |-> OtherUser, feed_id |-> OtherId,
                   status |-> "removed",
                   changed_at |-> Some(RemoteTime(0, 0)),
                   sync_status |-> "synced"]},
     icons |-> {[id |-> OtherId, feed_id |-> OtherId]}]

Init ==
    /\ Migrated
    /\ categories = OtherRows.categories
    /\ feeds = OtherRows.feeds
    /\ entries = OtherRows.entries
    /\ icons = OtherRows.icons
    /\ sync_state = << >>
    /\ \E C \in SUBSET CategoryIds, F \in SUBSET FeedIds,
          E \in SUBSET EntryIds, bulk \in BOOLEAN :
         /\ \A e \in E : FeedOf(e) \in F
         /\ bulk => C = CategoryIds /\ F = FeedIds /\ E = EntryIds
         /\ \E fc \in [F -> C], st \in [E -> {"unread", "removed"}] :
              /\ bulk => \A e \in E : st[e] = "unread"
              /\ remote_categories = {RCategory(c) : c \in C}
              /\ remote_feeds = {RFeed(f, fc[f]) : f \in F}
              /\ remote_entries =
                    SortDesc({REntry(e, st[e], RemoteTime(0, 0)) : e \in E})
                    \o (IF bulk THEN BulkRows(0) ELSE << >>)
    /\ clock = 0
    /\ run = IdleRun
    /\ result = NoResult
    /\ hist = InitHist

(***************************************************************************)
(* The sync command: sync_miniflux and sync_miniflux_impl                  *)
(***************************************************************************)
\* the default row with sync_in_progress set
DefaultSyncState_InProgress ==
    [last_sync_at |-> None, last_full_sync_at |-> None,
     sync_in_progress |-> TRUE, sync_error |-> None, sync_version |-> 1]

\* INSERT INTO sync_state (...) VALUES (NULL, NULL, 0, NULL, 1)
DefaultSyncState ==
    [last_sync_at |-> None, last_full_sync_at |-> None,
     sync_in_progress |-> FALSE, sync_error |-> None, sync_version |-> 1]

Goto(pc) == run' = [run EXCEPT !.pc = pc]
\* the ? operator on an Err: sync_miniflux_impl returns the error
Fail(msg) == run' = [run EXCEPT !.pc = "abort", !.error = msg]

\* the positions at which the command awaits the server
RemoteCallPcs ==
    {"get_current_user", "get_categories", "get_feeds",
     "full_get_entries", "inc_get_entries"}

\* app_handle.emit("sync-started", ()) and emit("sync-completed", &summary).
\* emit fails only when the payload cannot be serialized or the application
\* is closing; the command then logs the failure and carries on.
SyncStarted == [name |-> "sync-started", payload |-> None]
SyncCompleted(summary) == [name |-> "sync-completed", payload |-> Some(summary)]

StaleKeys(rows, table) ==
    {[table |-> table, id |-> r.id] :
        r \in {x \in rows : x.sync_status = "stale"}}

\* sync_miniflux gets the client lock, at once when it is invoked while no
\* other execution holds it, or after waiting for it: the pool and the
\* client are taken, sync_miniflux_impl reads the time
SyncStart ==
    /\ run.pc = "idle"
    /\ run.waiting = 0 => hist.invoked < MaxRuns
    /\ run' = [IdleRun EXCEPT !.pc = "get_or_create_sync_state",
                              !.now = clock,
                              !.waiting = IF run.waiting > 0
                                          THEN run.waiting - 1 ELSE 0,
                              !.waited = run.waiting > 0,
                              !.events = << SyncStarted >>]
    /\ result' = NoResult
    /\ hist' = [hist EXCEPT !.invoked = IF run.waiting > 0 THEN @ ELSE @ + 1,
                            !.runs = @ + 1, !.remote_changed = FALSE,
                            !.injected = FALSE,
                            !.pre_categories = Keys(categories),
                            !.pre_feeds = Keys(feeds),
                            !.pre_entries = Keys(entries),
                            !.pulled = {}, !.received = 0, !.requests = 0,
                            !.upserted = {}, !.changed_after = None,
                            !.stale_left =
                                IF result.status = "err" /\ run.is_full_sync
                                THEN Some(StaleKeys(categories, "categories")
                                          \cup StaleKeys(feeds, "feeds")
                                          \cup StaleKeys(entries, "entries"))
                                ELSE None]
    /\ UNCHANGED << store, sync_state, remote, clock, others >>

\* an invocation that finds a run in progress returns an error at once
SyncWaits_Rejected ==
    /\ run.pc \in RemoteCallPcs
    /\ hist.invoked < MaxRuns
    /\ result' = [status |-> "err", summary |-> IdleRun.summary,
                  error |-> "Sync already in progress"]
    /\ hist' = [hist EXCEPT !.invoked = @ + 1]
    /\ UNCHANGED << store, sync_state, remote, clock, others, run >>

\* an invocation that does not wait for the lock: it starts to execute
\* while the other execution awaits the server
SyncWaits_Overlaps ==
    /\ run.pc \in RemoteCallPcs
    /\ hist.invoked < MaxRuns
    /\ run' = [IdleRun EXCEPT !.pc = "get_or_create_sync_state",
                              !.now = clock,
                              !.events = << SyncStarted >>]
    /\ hist' = [hist EXCEPT !.invoked = @ + 1, !.runs = @ + 1]
    /\ UNCHANGED << store, sync_state, remote, clock, others, result >>

\* sync_miniflux is invoked while another execution holds the client lock:
\* sync-started is emitted, the pool is taken, and the invocation waits in
\* state.miniflux.client.lock().await
SyncWaits ==
    /\ run.pc \in RemoteCallPcs
    /\ hist.invoked < MaxRuns
    /\ run' = [run EXCEPT !.waiting = @ + 1]
    /\ hist' = [hist EXCEPT !.invoked = @ + 1]
    /\ UNCHANGED << store, sync_state, remote, clock, others, result >>

\* is_some() in place of is_none()
IsFullSync_IsSome(state) == IsSome(state.last_full_sync_at)

\* let is_full_sync = sync_state.last_full_sync_at.is_none();
IsFullSync(state) == IsNone(state.last_full_sync_at)

\* let mut sync_state = get_or_create_sync_state(pool).await?;
GetOrCreateSyncState ==
    /\ run.pc = "get_or_create_sync_state"
    /\ sync_state' = IF Len(sync_state) = 0 THEN << DefaultSyncState >>
                     ELSE sync_state
    /\ run' = [run EXCEPT !.pc = "mark_in_progress",
                          !.sync_state = Some(sync_state'[1]),
                          !.is_full_sync = IsFullSync(sync_state'[1])]
    /\ UNCHANGED << store, remote, clock, others, result, hist >>

\* the update that leaves sync_error as it is
MarkInProgress_KeepsError ==
    /\ run.pc = "mark_in_progress"
    /\ sync_state' = [i \in DOMAIN sync_state |->
                          [sync_state[i] EXCEPT !.sync_in_progress = TRUE]]
    /\ Goto("get_current_user")
    /\ UNCHANGED << store, remote, clock, others, result, hist >>

\* UPDATE sync_state SET sync_in_progress = 1, sync_error = NULL
MarkInProgress ==
    /\ run.pc = "mark_in_progress"
    /\ sync_state' = [i \in DOMAIN sync_state |->
                          [sync_state[i] EXCEPT !.sync_in_progress = TRUE,
                                                !.sync_error = None]]
    /\ Goto("get_current_user")
    /\ UNCHANGED << store, remote, clock, others, result, hist >>

\* a request that fails is sent once more
RemoteCallFails_Retry ==
    /\ run.pc \in RemoteCallPcs
    /\ IF run.error = ""
       THEN run' = [run EXCEPT !.error = "Request failed"]
       ELSE Fail("Request failed")
    /\ hist' = [hist EXCEPT !.injected = TRUE]
    /\ UNCHANGED << store, sync_state, remote, clock, others, result >>

\* a request to the server fails (network failure, non-2xx status, bad body)
RemoteCallFails ==
    /\ run.pc \in RemoteCallPcs
    /\ Fail("Request failed")
    /\ hist' = [hist EXCEPT !.injected = TRUE]
    /\ UNCHANGED << store, sync_state, remote, clock, others, result >>

\* let user = client.get_current_user().await?;
GetCurrentUser ==
    /\ run.pc = "get_current_user"
    /\ run' = [run EXCEPT !.user_id = get_current_user.id,
                          !.pc = IF run.is_full_sync
                                 THEN "mark_categories_stale"
                                 ELSE "get_categories"]
    /\ UNCHANGED << store, sync_state, remote, clock, others, result, hist >>

MarkCategoriesStale ==
    /\ run.pc = "mark_categories_stale"
    /\ categories' = mark_categories_stale(categories, run.user_id)
    /\ Goto("mark_feeds_stale")
    /\ UNCHANGED << feeds, entries, icons, sync_state, remote, clock, others,
                    result, hist >>

MarkFeedsStale ==
    /\ run.pc = "mark_feeds_stale"
    /\ feeds' = mark_feeds_stale(feeds, run.user_id)
    /\ Goto("mark_entries_stale")
    /\ UNCHANGED << categories, entries, icons, sync_state, remote, clock, others,
                    result, hist >>

MarkEntriesStale ==
    /\ run.pc = "mark_entries_stale"
    /\ entries' = mark_entries_stale(entries, run.user_id)
    /\ Goto("get_categories")
    /\ UNCHANGED << categories, feeds, icons, sync_state, remote, clock, others,
                    result, hist >>

\* let categories = client.get_categories().await?;
\* let category_ids = categories.iter().map(|category| category.id).collect();
GetCategories ==
    /\ run.pc = "get_categories"
    /\ run' = [run EXCEPT
                 !.categories = get_categories,
                 !.category_ids =
                     [i \in 1..Len(get_categories) |-> get_categories[i].id],
                 !.pc = "upsert_categories"]
    /\ UNCHANGED << store, sync_state, remote, clock, others, result, hist >>

\* upsert_categories(pool, &categories, &now).await?;
\* summary.categories_pulled = categories.len() as u32;
UpsertCategories ==
    /\ run.pc = "upsert_categories"
    /\ LET res == upsert_categories(categories, run.categories)
       IN /\ categories' = res.rows
          /\ IF res.ok
             THEN run' = [run EXCEPT
                            !.summary.categories_pulled = Len(run.categories),
                            !.pc = "get_feeds"]
             ELSE Fail("Failed to upsert categories")
    /\ UNCHANGED << feeds, entries, icons, sync_state, remote, clock, others,
                    result, hist >>

\* let feeds = client.get_feeds().await?;
\* let feed_ids = feeds.iter().map(|feed| feed.id).collect();
GetFeeds ==
    /\ run.pc = "get_feeds"
    /\ run' = [run EXCEPT
                 !.feeds = get_feeds,
                 !.feed_ids = [i \in 1..Len(get_feeds) |-> get_feeds[i].id],
                 !.pc = "upsert_feeds"]
    /\ UNCHANGED << store, sync_state, remote, clock, others, result, hist >>

\* upsert_feeds(pool, &feeds, &now).await?;
\* summary.feeds_pulled = feeds.len() as u32;
UpsertFeeds ==
    /\ run.pc = "upsert_feeds"
    /\ LET res == upsert_feeds(feeds, categories, run.feeds)
       IN /\ feeds' = res.rows
          /\ IF res.ok
             THEN run' = [run EXCEPT
                            !.summary.feeds_pulled = Len(run.feeds),
                            !.pc = IF run.is_full_sync
                                   THEN "full_get_entries"
                                   ELSE "inc_get_entries"]
             ELSE Fail("Failed to upsert feeds")
    /\ UNCHANGED << categories, entries, icons, sync_state, remote, clock, others,
                    result, hist >>

\* one request of the paging loop of sync_full_entries / sync_incremental_entries:
\* let response = client.get_entries(&filters).await?;
\* if count == 0 { break; }
GetEntriesPage(changed_after, upsert_pc, break_pc) ==
    LET response == get_entries([offset |-> run.offset,
                                 limit |-> WindowLimit,
                                 changed_after |-> changed_after])
        count == Len(response.entries)
    IN /\ run' = [run EXCEPT !.page = response.entries,
                             !.total = response.total,
                             !.pc = IF count = 0 THEN break_pc ELSE upsert_pc]
       /\ hist' = [hist EXCEPT !.requests = @ + 1,
                               !.changed_after = changed_after,
                               !.received = @ + count,
                               !.pulled = @ \cup Ids(SeqToSet(response.entries))]

\* the sum of two page counts written over by the second
saturating_add_Last(a, b) == b

\* u32::saturating_add: the counts of the model stay far below u32::MAX,
\* where the sum saturates
saturating_add(a, b) == a + b

\* the loop body that goes on until more rows were seen than the total
UpsertEntriesPage_Greater(get_pc, break_pc) ==
    LET res == upsert_entries(entries, feeds, run.page)
        count == Len(run.page)
    IN /\ entries' = res.rows
       /\ hist' = IF res.ok
                  THEN [hist EXCEPT !.upserted = Upsert(@, run.page)]
                  ELSE hist
       /\ IF res.ok
          THEN run' = [run EXCEPT
                         !.summary.entries_pulled = saturating_add(@, count),
                         !.total_seen = @ + count,
                         !.offset = IF run.total_seen + count > run.total
                                    THEN @ ELSE @ + WindowLimit,
                         !.pc = IF run.total_seen + count > run.total
                                THEN break_pc ELSE get_pc]
          ELSE Fail("Failed to upsert entries")

\* the loop body that leaves offset as it is
UpsertEntriesPage_SameOffset(get_pc, break_pc) ==
    LET res == upsert_entries(entries, feeds, run.page)
        count == Len(run.page)
    IN /\ entries' = res.rows
       /\ hist' = IF res.ok
                  THEN [hist EXCEPT !.upserted = Upsert(@, run.page)]
                  ELSE hist
       /\ IF res.ok
          THEN run' = [run EXCEPT
                         !.summary.entries_pulled = saturating_add(@, count),
                         !.total_seen = @ + count,
                         !.pc = IF run.total_seen + count >= run.total
                                THEN break_pc ELSE get_pc]
          ELSE Fail("Failed to upsert entries")

\* upsert_entries(pool, &entries, ..).await?;
\* summary.entries_pulled = summary.entries_pulled.saturating_add(count as u32);
\* total_seen += count as i64;
\* if total_seen >= response.total { break; }
\* offset += window.limit;
UpsertEntriesPage(get_pc, break_pc) ==
    LET res == upsert_entries(entries, feeds, run.page)
        count == Len(run.page)
    IN /\ entries' = res.rows
       /\ hist' = IF res.ok
                  THEN [hist EXCEPT !.upserted = Upsert(@, run.page)]
                  ELSE hist
       /\ IF res.ok
          THEN run' = [run EXCEPT
                         !.summary.entries_pulled = saturating_add(@, count),
                         !.total_seen = @ + count,
                         !.offset = IF run.total_seen + count >= run.total
                                    THEN @ ELSE @ + WindowLimit,
                         !.pc = IF run.total_seen + count >= run.total
                                THEN break_pc ELSE get_pc]
          ELSE Fail("Failed to upsert entries")

FullGetEntries ==
    /\ run.pc = "full_get_entries"
    /\ GetEntriesPage(None, "full_upsert_entries", "delete_stale_entries")
    /\ UNCHANGED << store, sync_state, remote, clock, others, result >>

FullUpsertEntries ==
    /\ run.pc = "full_upsert_entries"
    /\ UpsertEntriesPage("full_get_entries", "delete_stale_entries")
    /\ UNCHANGED << categories, feeds, icons, sync_state, remote, clock, others,
                    result >>

IncrementalGetEntries ==
    /\ run.pc = "inc_get_entries"
    /\ GetEntriesPage(ChangedAfter(Unwrap(run.sync_state)),
                      "inc_upsert_entries", "delete_removed_entries")
    /\ UNCHANGED << store, sync_state, remote, clock, others, result >>

IncrementalUpsertEntries ==
    /\ run.pc = "inc_upsert_entries"
    /\ UpsertEntriesPage("inc_get_entries", "delete_removed_entries")
    /\ UNCHANGED << categories, feeds, icons, sync_state, remote, clock, others,
                    result >>

DeleteStaleEntries ==
    /\ run.pc = "delete_stale_entries"
    /\ entries' = delete_stale_entries(entries, run.user_id)
    /\ Goto("delete_stale_feeds")
    /\ UNCHANGED << categories, feeds, icons, sync_state, remote, clock, others,
                    result, hist >>

DeleteStaleFeeds ==
    /\ run.pc = "delete_stale_feeds"
    /\ LET res == delete_stale_feeds(feeds, entries, icons, run.user_id)
       IN /\ feeds' = res.rows
          /\ IF res.ok THEN Goto("delete_stale_categories")
             ELSE Fail("Failed to delete stale feeds")
    /\ UNCHANGED << categories, entries, icons, sync_state, remote, clock, others,
                    result, hist >>

DeleteStaleCategories ==
    /\ run.pc = "delete_stale_categories"
    /\ LET res == delete_stale_categories(categories, feeds, run.user_id)
       IN /\ categories' = res.rows
          /\ IF res.ok THEN Goto("finish")
             ELSE Fail("Failed to delete stale categories")
    /\ UNCHANGED << feeds, entries, icons, sync_state, remote, clock, others,
                    result, hist >>

DeleteRemovedEntries ==
    /\ run.pc = "delete_removed_entries"
    /\ entries' = delete_removed_entries(entries, run.user_id,
                                         Unwrap(run.sync_state))
    /\ Goto("delete_removed_feeds")
    /\ UNCHANGED << categories, feeds, icons, sync_state, remote, clock, others,
                    result, hist >>

DeleteRemovedFeeds ==
    /\ run.pc = "delete_removed_feeds"
    /\ LET res == delete_removed_feeds(feeds, entries, icons, run.user_id,
                                       run.feed_ids)
       IN /\ feeds' = res.rows
          /\ IF res.ok THEN Goto("delete_removed_categories")
             ELSE Fail("Failed to delete removed feeds")
    /\ UNCHANGED << categories, entries, icons, sync_state, remote, clock, others,
                    result, hist >>

DeleteRemovedCategories ==
    /\ run.pc = "delete_removed_categories"
    /\ LET res == delete_removed_categories(categories, feeds, run.user_id,
                                            run.category_ids)
       IN /\ categories' = res.rows
          /\ IF res.ok THEN Goto("finish")
             ELSE Fail("Failed to delete removed categories")
    /\ UNCHANGED << feeds, entries, icons, sync_state, remote, clock, others,
                    result, hist >>

\* the success update that leaves sync_in_progress as it is
SuccessUpdate_StillInProgress(r, sync_started_at) ==
    [r EXCEPT !.last_sync_at = Some(sync_started_at),
              !.last_full_sync_at =
                  IF IsNone(@) THEN Some(sync_started_at) ELSE @,
              !.sync_error = None]

\* the success update without COALESCE
SuccessUpdate_Overwrite(r, sync_started_at) ==
    [r EXCEPT !.last_sync_at = Some(sync_started_at),
              !.last_full_sync_at = Some(sync_started_at),
              !.sync_in_progress = FALSE,
              !.sync_error = None]

\* UPDATE sync_state SET last_sync_at = ?,
\*   last_full_sync_at = COALESCE(last_full_sync_at, ?),
\*   sync_in_progress = 0, sync_error = NULL
SuccessUpdate(r, sync_started_at) ==
    [r EXCEPT !.last_sync_at = Some(sync_started_at),
              !.last_full_sync_at =
                  IF IsNone(@) THEN Some(sync_started_at) ELSE @,
              !.sync_in_progress = FALSE,
              !.sync_error = None]

\* the success update with the time at which it is made
FinishSync_AtEnd ==
    /\ run.pc = "finish"
    /\ sync_state' = [i \in DOMAIN sync_state |->
                          SuccessUpdate(sync_state[i], to_rfc3339(clock))]
    /\ Goto("emit_completed")
    /\ hist' = [hist EXCEPT !.successes = @ + 1,
                            !.changed_since_success = hist.remote_changed,
                            !.success_started = Some(run.now)]
    /\ UNCHANGED << store, remote, clock, others, result >>

\* the success path: the state update, Ok(summary), sync-completed
FinishSync ==
    /\ run.pc = "finish"
    /\ sync_state' = [i \in DOMAIN sync_state |->
                          SuccessUpdate(sync_state[i], to_rfc3339(run.now))]
    /\ Goto("emit_completed")
    /\ hist' = [hist EXCEPT !.successes = @ + 1,
                            !.changed_since_success = hist.remote_changed,
                            !.success_started = Some(run.now)]
    /\ UNCHANGED << store, remote, clock, others, result >>

\* sync_miniflux after sync_miniflux_impl returned Ok(summary): the event,
\* then Ok(summary)
EmitCompleted ==
    /\ run.pc = "emit_completed"
    /\ run' = [run EXCEPT !.pc = "idle",
                          !.events = Append(@, SyncCompleted(run.summary))]
    /\ result' = [status |-> "ok", summary |-> run.summary, error |-> ""]
    /\ UNCHANGED << store, sync_state, remote, clock, others, hist >>

\* the error update that leaves sync_in_progress as it is
ErrorUpdate_StillInProgress(r, error) ==
    [r EXCEPT !.sync_error = Some(error)]

\* the error update that writes the text of another error
ErrorUpdate_OtherMessage(r, error) ==
    [r EXCEPT !.sync_in_progress = FALSE,
              !.sync_error = Some("Sync failed")]

\* UPDATE sync_state SET sync_in_progress = 0, sync_error = ?
ErrorUpdate(r, error) ==
    [r EXCEPT !.sync_in_progress = FALSE, !.sync_error = Some(error)]

\* an error path that emits sync-completed before it returns
AbortSync_EmitsCompleted ==
    /\ run.pc = "abort"
    /\ sync_state' = [i \in DOMAIN sync_state |->
                          ErrorUpdate(sync_state[i], run.error)]
    /\ result' = [status |-> "err", summary |-> IdleRun.summary,
                  error |-> run.error]
    /\ run' = [run EXCEPT !.pc = "idle",
                          !.events = Append(@, SyncCompleted(run.summary))]
    /\ UNCHANGED << store, remote, clock, others, hist >>

\* the error path of sync_miniflux: the state update, return Err(error)
AbortSync ==
    /\ run.pc = "abort"
    /\ sync_state' = [i \in DOMAIN sync_state |->
                          ErrorUpdate(sync_state[i], run.error)]
    /\ result' = [status |-> "err", summary |-> IdleRun.summary,
                  error |-> run.error]
    /\ Goto("idle")
    /\ UNCHANGED << store, remote, clock, others, hist >>

(***************************************************************************)
(* The environment: time passes and the server's collection changes.  A    *)
(* change is observable to the run only through its requests, so the       *)
(* environment moves while the command is idle or about to send one.       *)
(***************************************************************************)
EnvPoint == run.pc \in {"idle", "full_get_entries", "inc_get_entries"}

Tick ==
    /\ run.pc = "idle"
    \* half a second: the clock counts tenths of a second
    /\ clock + 5 <= MaxTicks * 5
    /\ clock' = clock + 5
    /\ UNCHANGED << store, sync_state, remote, others, run, result, hist >>

RemoteChange ==
    /\ EnvPoint
    /\ hist.remote_changes < hist.change_limit
    /\ hist' = [hist EXCEPT !.remote_changes = @ + 1,
                            !.remote_changed = TRUE,
                            !.changed_since_success = TRUE]
    /\ UNCHANGED << store, sync_state, clock, others, run, result >>

RemoteAddCategory ==
    /\ RemoteChange
    /\ \E c \in CategoryIds \ Ids(remote_categories) :
         remote_categories' = remote_categories \cup {RCategory(c)}
    /\ UNCHANGED << remote_feeds, remote_entries >>

\* deleting a category on the server deletes its feeds and their entries
RemoteRemoveCategory ==
    /\ RemoteChange
    /\ \E c \in remote_categories :
         LET gone == {f \in remote_feeds : f.category_id = Some(c.id)}
         IN /\ remote_categories' = remote_categories \ {c}
            /\ remote_feeds' = remote_feeds \ gone
            /\ remote_entries' = SelectSeq(remote_entries,
                    LAMBDA e : e.feed_id \notin Ids(gone))

RemoteAddFeed ==
    /\ RemoteChange
    /\ \E f \in FeedIds \ Ids(remote_feeds), c \in Ids(remote_categories) :
         remote_feeds' = remote_feeds \cup {RFeed(f, c)}
    /\ UNCHANGED << remote_categories, remote_entries >>

\* unsubscribing from a feed on the server deletes its entries
RemoteRemoveFeed ==
    /\ RemoteChange
    /\ \E f \in remote_feeds :
         /\ remote_feeds' = remote_feeds \ {f}
         /\ remote_entries' = SelectSeq(remote_entries,
                 LAMBDA e : e.feed_id # f.id)
    /\ UNCHANGED remote_categories

RemoteAddEntry ==
    /\ RemoteChange
    /\ \E e \in EntryIds \ Ids(SeqToSet(remote_entries)), tz \in TzOffsets :
         /\ FeedOf(e) \in Ids(remote_feeds)
         /\ remote_entries' = InsertEntry(remote_entries,
                 REntry(e, "unread", RemoteTime(clock, tz)))
    /\ UNCHANGED << remote_categories, remote_feeds >>

\* the user marks an entry read/unread or removes it; changed_at is set
RemoteSetStatus ==
    /\ RemoteChange
    /\ \E i \in 1..Len(remote_entries), tz \in TzOffsets,
          status \in {"unread", "removed"} :
         /\ remote_entries[i].id \in EntryIds
         /\ remote_entries[i].status # status
         /\ remote_entries' = [remote_entries EXCEPT
                 ![i].status = status,
                 ![i].changed_at = Some(RemoteTime(clock, tz))]
    /\ UNCHANGED << remote_categories, remote_feeds >>

\* the server purges an entry
RemotePurgeEntry ==
    /\ RemoteChange
    /\ \E e \in EntryIds \cap Ids(SeqToSet(remote_entries)) :
         remote_entries' = SelectSeq(remote_entries, LAMBDA x : x.id # e)
    /\ UNCHANGED << remote_categories, remote_feeds >>

Next ==
    \/ SyncStart
    \/ SyncWaits
    \/ GetOrCreateSyncState
    \/ MarkInProgress
    \/ RemoteCallFails
    \/ GetCurrentUser
    \/ MarkCategoriesStale
    \/ MarkFeedsStale
    \/ MarkEntriesStale
    \/ GetCategories
    \/ UpsertCategories
    \/ GetFeeds
    \/ UpsertFeeds
    \/ FullGetEntries
    \/ FullUpsertEntries
    \/ IncrementalGetEntries
    \/ IncrementalUpsertEntries
    \/ DeleteStaleEntries
    \/ DeleteStaleFeeds
    \/ DeleteStaleCategories
    \/ DeleteRemovedEntries
    \/ DeleteRemovedFeeds
    \/ DeleteRemovedCategories
    \/ FinishSync
    \/ EmitCompleted
    \/ AbortSync
    \/ Tick
    \/ RemoteAddCategory
    \/ RemoteRemoveCategory
    \/ RemoteAddFeed
    \/ RemoteRemoveFeed
    \/ RemoteAddEntry
    \/ RemoteSetStatus
    \/ RemotePurgeEntry

Spec == Init /\ [][Next]_vars

\* A busier server: it starts with one category, every feed and every
\* entry, and changes once more often.
InitBusy ==
    /\ Migrated
    /\ categories = OtherRows.categories
    /\ feeds = OtherRows.feeds
    /\ entries = OtherRows.entries
    /\ icons = OtherRows.icons
    /\ sync_state = << >>
    /\ remote_categories = {RCategory(1)}
    /\ remote_feeds = {RFeed(f, 1) : f \in FeedIds}
    /\ remote_entries =
          SortDesc({REntry(e, "unread", RemoteTime(0, 0)) : e \in EntryIds})
    /\ clock = 0
    /\ run = IdleRun
    /\ result = NoResult
    /\ hist = [InitHist EXCEPT !.change_limit = MaxRemoteChanges + 1]

BusySpec == InitBusy /\ [][Next]_vars

\* A store shared by two accounts of different servers: the other user's
\* category, feed and entry carry ids the remote uses for rows of its own.
SharedRows ==
    [categories |-> {[id |-> MaxCategoryId, user_id |-> OtherUser,
                      sync_status |-> "synced"]},
     feeds |-> {[id |-> MaxFeedId, user_id |-> OtherUser,
                 category_id |-> Some(MaxCategoryId),
                 sync_status |-> "synced"]},
     entries |-> {[id |-> EntryBase + MaxEntryId, user_id |-> OtherUser,
                   feed_id |-> MaxFeedId, status |-> "unread",
                   changed_at |-> Some(RemoteTime(0, 0)),
                   sync_status |-> "synced"]},
     icons |-> {[id |-> MaxFeedId, feed_id |-> MaxFeedId]}]

InitShared ==
    /\ Migrated
    /\ categories = SharedRows.categories
    /\ feeds = SharedRows.feeds
    /\ entries = SharedRows.entries
    /\ icons = SharedRows.icons
    /\ sync_state = << >>
    /\ remote_categories = {RCategory(c) : c \in CategoryIds}
    /\ remote_feeds = {RFeed(f, MaxCategoryId) : f \in FeedIds}
    /\ remote_entries =
          SortDesc({REntry(e, "unread", RemoteTime(0, 0)) : e \in EntryIds})
    /\ clock = 0
    /\ run = IdleRun
    /\ result = NoResult
    /\ hist = [InitHist EXCEPT !.change_limit = MaxRemoteChanges + 1]

SharedSpec == InitShared /\ [][Next]_vars

\* A store whose SyncState row was damaged after a full sync: last_sync_at
\* holds text that is no timestamp.  The store holds what that sync pulled,
\* the entries since removed on the server.  (Or the store is new.)
CorruptSyncState ==
    [DefaultSyncState EXCEPT !.last_sync_at = Some(Unparsable),
                             !.last_full_sync_at = Some(to_rfc3339(0))]

InitCorrupt ==
    /\ Migrated
    /\ remote_categories = {RCategory(c) : c \in CategoryIds}
    /\ remote_feeds = {RFeed(f, MaxCategoryId) : f \in FeedIds}
    /\ remote_entries =
          SortDesc({REntry(e, "removed", RemoteTime(0, 0)) : e \in EntryIds})
    /\ \E corrupt \in BOOLEAN :
         /\ sync_state = IF corrupt THEN << CorruptSyncState >> ELSE << >>
         /\ categories =
               IF corrupt
               THEN Upsert(OtherRows.categories, SortById(remote_categories))
               ELSE OtherRows.categories
         /\ feeds =
               IF corrupt
               THEN Upsert(OtherRows.feeds, SortById(remote_feeds))
               ELSE OtherRows.feeds
         /\ entries =
               IF corrupt
               THEN Upsert(OtherRows.entries,
                      [i \in DOMAIN remote_entries |->
                         [remote_entries[i] EXCEPT !.status = "unread"]])
               ELSE OtherRows.entries
    /\ icons = OtherRows.icons
    /\ clock = 0
    /\ run = IdleRun
    /\ result = NoResult
    /\ hist = [InitHist EXCEPT !.change_limit = MaxRemoteChanges + 1]

CorruptSpec == InitCorrupt /\ [][Next]_vars

\* the steps of the executing command.  Every request to the server returns
\* (the client gives up after its timeout) and every statement returns, so
\* the command does not stop in the middle.
Command ==
    \/ GetOrCreateSyncState
    \/ MarkInProgress
    \/ RemoteCallFails
    \/ GetCurrentUser
    \/ MarkCategoriesStale
    \/ MarkFeedsStale
    \/ MarkEntriesStale
    \/ GetCategories
    \/ UpsertCategories
    \/ GetFeeds
    \/ UpsertFeeds
    \/ FullGetEntries
    \/ FullUpsertEntries
    \/ IncrementalGetEntries
    \/ IncrementalUpsertEntries
    \/ DeleteStaleEntries
    \/ DeleteStaleFeeds
    \/ DeleteStaleCategories
    \/ DeleteRemovedEntries
    \/ DeleteRemovedFeeds
    \/ DeleteRemovedCategories
    \/ FinishSync
    \/ EmitCompleted
    \/ AbortSync

FairSpec == Init /\ [][Next]_vars /\ WF_vars(Command)

(***************************************************************************)
(* The command where the application state or the database lets it down:   *)
(* the pool or the client is missing when the command is invoked, or the   *)
(* UPDATE of the error arm fails (the database is locked or gone).  The    *)
(* server holds one category, every feed and every entry; only the        *)
(* status of an entry changes.                                             *)
(***************************************************************************)
InitFaulty ==
    /\ Migrated
    /\ categories = OtherRows.categories
    /\ feeds = OtherRows.feeds
    /\ entries = OtherRows.entries
    /\ icons = OtherRows.icons
    /\ sync_state = << >>
    /\ remote_categories = {RCategory(MaxCategoryId)}
    /\ remote_feeds = {RFeed(f, MaxCategoryId) : f \in FeedIds}
    /\ remote_entries =
          SortDesc({REntry(e, "unread", RemoteTime(0, 0)) : e \in EntryIds})
    /\ clock = 0
    /\ run = IdleRun
    /\ result = NoResult
    /\ hist = InitHist

\* the error arm whose caller is handed the failure of the UPDATE
AbortSyncWriteFails_ReturnsWriteError ==
    /\ run.pc = "abort"
    /\ result' = [status |-> "err", summary |-> IdleRun.summary,
                  error |-> "Failed to update sync state"]
    /\ Goto("idle")
    /\ hist' = [hist EXCEPT !.write_failed = hist.runs]
    /\ UNCHANGED << store, sync_state, remote, clock, others >>

\* the error arm of sync_miniflux when its UPDATE fails: let _ = discards
\* the failure, no row is written, return Err(error)
AbortSyncWriteFails ==
    /\ run.pc = "abort"
    /\ result' = [status |-> "err", summary |-> IdleRun.summary,
                  error |-> run.error]
    /\ Goto("idle")
    /\ hist' = [hist EXCEPT !.write_failed = hist.runs]
    /\ UNCHANGED << store, sync_state, remote, clock, others >>

\* the errors of the two ok_or(...)? of sync_miniflux
Unavailable == {"Database not initialized", "Not connected to Miniflux server"}

\* a rejection that records its error as the error arm does
SyncUnavailable_RecordsError ==
    /\ run.pc = "idle"
    /\ run.waiting = 0
    /\ hist.invoked < MaxRuns
    /\ \E error \in Unavailable :
         /\ result' = [status |-> "err", summary |-> IdleRun.summary,
                       error |-> error]
         /\ sync_state' = [i \in DOMAIN sync_state |->
                               ErrorUpdate(sync_state[i], error)]
    /\ run' = [IdleRun EXCEPT !.events = << SyncStarted >>]
    /\ hist' = [hist EXCEPT !.invoked = @ + 1]
    /\ UNCHANGED << store, remote, clock, others >>

\* sync_miniflux is invoked while db_pool or miniflux.client holds None:
\* sync-started is emitted, then ok_or(...)? returns the error
SyncUnavailable ==
    /\ run.pc = "idle"
    /\ run.waiting = 0
    /\ hist.invoked < MaxRuns
    /\ \E error \in Unavailable :
         result' = [status |-> "err", summary |-> IdleRun.summary,
                    error |-> error]
    /\ run' = [IdleRun EXCEPT !.events = << SyncStarted >>]
    /\ hist' = [hist EXCEPT !.invoked = @ + 1]
    /\ UNCHANGED << store, sync_state, remote, clock, others >>

NextFaulty ==
    \/ SyncStart
    \/ SyncWaits
    \/ SyncUnavailable
    \/ Command
    \/ AbortSyncWriteFails
    \/ Tick
    \/ RemoteSetStatus

FaultySpec == InitFaulty /\ [][NextFaulty]_vars

(***************************************************************************)
(* The command against a server that sends fewer rows in a response than   *)
(* the limit the request names (a server or a proxy that caps the size of  *)
(* a response).  The server holds every category, feed and entry and the   *)
(* bulk import; only the status of an entry changes.                       *)
(***************************************************************************)
ServerPageCap == WindowLimit \div 2

InitCapped ==
    /\ Migrated
    /\ categories = OtherRows.categories
    /\ feeds = OtherRows.feeds
    /\ entries = OtherRows.entries
    /\ icons = OtherRows.icons
    /\ sync_state = << >>
    /\ remote_categories = {RCategory(c) : c \in CategoryIds}
    /\ remote_feeds = {RFeed(f, MaxCategoryId) : f \in FeedIds}
    /\ remote_entries =
          SortDesc({REntry(e, "unread", RemoteTime(0, 0)) : e \in EntryIds})
          \o BulkRows(0)
    /\ clock = 0
    /\ run = IdleRun
    /\ result = NoResult
    /\ hist = [InitHist EXCEPT !.page_cap = ServerPageCap]

NextCapped ==
    \/ SyncStart
    \/ SyncWaits
    \/ Command
    \/ Tick
    \/ RemoteSetStatus

CappedSpec == InitCapped /\ [][NextCapped]_vars

(***************************************************************************)
(* The command on a store that a failed first sync has left: the run had   *)
(* upserted every category, feed and entry of the server when a request    *)
(* for a further page failed.  On the server, entries come and go.         *)
(***************************************************************************)
InitRetry ==
    /\ Migrated
    /\ remote_categories = {RCategory(c) : c \in CategoryIds}
    /\ remote_feeds = {RFeed(f, MaxCategoryId) : f \in FeedIds}
    /\ remote_entries =
          SortDesc({REntry(e, "unread", RemoteTime(0, 0)) : e \in EntryIds})
    /\ categories = Upsert(OtherRows.categories, SortById(remote_categories))
    /\ feeds = Upsert(OtherRows.feeds, SortById(remote_feeds))
    /\ entries = Upsert(OtherRows.entries, remote_entries)
    /\ icons = OtherRows.icons
    /\ sync_state = << ErrorUpdate(DefaultSyncState, "Request failed") >>
    /\ clock = 0
    /\ run = IdleRun
    /\ result = NoResult
    /\ hist = [InitHist EXCEPT !.change_limit = MaxRemoteChanges + 1]

NextRetry ==
    \/ SyncStart
    \/ SyncWaits
    \/ Command
    \/ Tick
    \/ RemoteAddEntry
    \/ RemoteSetStatus
    \/ RemotePurgeEntry

RetrySpec == InitRetry /\ [][NextRetry]_vars

(***************************************************************************)
(* The command with time passing while it awaits the server: the clock of  *)
(* the other specifications stands still during a run.                     *)
(***************************************************************************)
TickWhileFetching ==
    /\ run.pc \in RemoteCallPcs
    /\ clock + 5 <= MaxTicks * 5
    /\ clock' = clock + 5
    /\ UNCHANGED << store, sync_state, remote, others, run, result, hist >>

NextClock ==
    \/ SyncStart
    \/ SyncWaits
    \/ Command
    \/ Tick
    \/ TickWhileFetching
    \/ RemoteSetStatus

ClockSpec == InitFaulty /\ [][NextClock]_vars

(***************************************************************************)
(* delete_removed_feeds on its own, as the unit tests of sync.test.rs call *)
(* it: on a store that holds feeds of two users, each with or without an   *)
(* entry and an icon.                                                      *)
(***************************************************************************)
TestFeedIds == FeedIds \cup {OtherId}

TestFeed(f, u) ==
    [id |-> f, user_id |-> u, category_id |-> None, sync_status |-> "synced"]
TestEntry(f, u) ==
    [id |-> EntryBase + f, user_id |-> u, feed_id |-> f, status |-> "unread",
     changed_at |-> None, sync_status |-> "synced"]
TestIcon(f) == [id |-> f, feed_id |-> f]

InitDelete ==
    /\ Migrated
    /\ \E F \in SUBSET TestFeedIds :
         \E owner \in [F -> {RemoteUser, OtherUser}],
            E \in SUBSET F, I \in SUBSET F :
              /\ feeds = {TestFeed(f, owner[f]) : f \in F}
              /\ entries = {TestEntry(f, owner[f]) : f \in E}
              /\ icons = {TestIcon(f) : f \in I}
    /\ categories = {}
    /\ sync_state = << >>
    /\ remote_categories = {}
    /\ remote_feeds = {}
    /\ remote_entries = << >>
    /\ clock = 0
    /\ run = [IdleRun EXCEPT !.pc = "call"]
    /\ result = NoResult
    /\ hist = [feeds |-> {}, entries |-> {}, icons |-> {}]

\* delete_removed_feeds(&pool, user_id, &feed_ids).await
DeleteRemovedFeedsCall ==
    /\ run.pc = "call"
    /\ \E user_id \in {RemoteUser, OtherUser}, ids \in SUBSET TestFeedIds :
         LET feed_ids == SortById({[id |-> f] : f \in ids})
             list == [i \in 1..Len(feed_ids) |-> feed_ids[i].id]
             res == delete_removed_feeds(feeds, entries, icons, user_id, list)
         IN /\ feeds' = res.rows
            /\ result' = [NoResult EXCEPT
                            !.status = IF res.ok THEN "ok" ELSE "err"]
            /\ run' = [run EXCEPT !.pc = "returned", !.user_id = user_id,
                                  !.feed_ids = list]
    /\ hist' = [feeds |-> feeds, entries |-> entries, icons |-> icons]
    /\ UNCHANGED << categories, entries, icons, sync_state, remote, clock, others >>

NextDelete == DeleteRemovedFeedsCall

SpecDelete == InitDelete /\ [][NextDelete]_vars

(***************************************************************************)
(* get_or_create_sync_state on its own: calls that run concurrently, one   *)
(* statement at a time, on a table that is empty or holds the row an       *)
(* earlier run left.                                                       *)
(***************************************************************************)
Callers == 1..MaxCallers

\* rows an earlier run can have left in sync_state
StoredStates ==
    {DefaultSyncState,
     SuccessUpdate(DefaultSyncState, to_rfc3339(0)),
     ErrorUpdate(SuccessUpdate(DefaultSyncState, to_rfc3339(0)),
                 "Request failed")}

InitState ==
    /\ Migrated
    /\ sync_state \in {<< >>} \cup {<< r >> : r \in StoredStates}
    /\ run = [c \in Callers |-> [pc |-> "select", ret |-> None]]
    /\ hist = [initial |-> sync_state]
    /\ result = NoResult
    /\ categories = {}
    /\ feeds = {}
    /\ entries = {}
    /\ icons = {}
    /\ remote_categories = {}
    /\ remote_feeds = {}
    /\ remote_entries = << >>
    /\ clock = 0

\* SELECT ... FROM sync_state LIMIT 1, fetch_optional: return the row if
\* there is one
SelectSyncState(c) ==
    /\ run[c].pc = "select"
    /\ run' = [run EXCEPT ![c] =
                 IF Len(sync_state) > 0
                 THEN [pc |-> "done", ret |-> Some(sync_state[1])]
                 ELSE [pc |-> "insert", ret |-> None]]
    /\ UNCHANGED << store, sync_state, remote, clock, others, result, hist >>

\* INSERT INTO sync_state (...) VALUES (NULL, NULL, 0, NULL, 1)
InsertSyncState(c) ==
    /\ run[c].pc = "insert"
    /\ sync_state' = Append(sync_state, DefaultSyncState)
    /\ run' = [run EXCEPT ![c].pc = "reselect"]
    /\ UNCHANGED << store, remote, clock, others, result, hist >>

\* SELECT ... FROM sync_state LIMIT 1, fetch_one
ReselectSyncState(c) ==
    /\ run[c].pc = "reselect"
    /\ run' = [run EXCEPT ![c] = [pc |-> "done", ret |-> Some(sync_state[1])]]
    /\ UNCHANGED << store, sync_state, remote, clock, others, result, hist >>

NextState ==
    \E c \in Callers :
        \/ SelectSyncState(c)
        \/ InsertSyncState(c)
        \/ ReselectSyncState(c)

StateSpec == InitState /\ [][NextState]_vars

(***************************************************************************)
(* run_migrations of database/migrations.rs, statement by statement.  The  *)
(* database starts fresh; a statement can fail (the ? operator returns the *)
(* sqlx error), which leaves what the earlier statements did.              *)
(***************************************************************************)
IdleMigration == [pc |-> "idle", applied_migrations |-> {}, statement |-> 0]

InitMigration ==
    /\ schema = {}
    /\ schema_versions = {}
    /\ miniflux_accounts = {}
    /\ keyring = {}
    /\ downloads = {}
    /\ active_downloads = << >>
    /\ download_id_counter = 0
    /\ run = IdleMigration
    /\ result = NoResult
    /\ hist = [runs |-> 0, failed |-> FALSE, after_first |-> {}]
    /\ clock = 0
    /\ categories = {}
    /\ feeds = {}
    /\ entries = {}
    /\ icons = {}
    /\ sync_state = << >>
    /\ remote_categories = {}
    /\ remote_feeds = {}
    /\ remote_entries = << >>

MigrationFrame ==
    UNCHANGED << store, sync_state, remote, clock, miniflux_accounts,
                 keyring, download_vars >>

\* run_migrations is called
MigrationStart ==
    /\ run.pc = "idle"
    /\ hist.runs < MaxMigrationRuns
    /\ run' = [IdleMigration EXCEPT !.pc = "create_schema_versions_table"]
    /\ result' = NoResult
    /\ hist' = [hist EXCEPT !.runs = @ + 1]
    /\ UNCHANGED << schema, schema_versions >>
    /\ MigrationFrame

\* a statement of run_migrations returns an sqlx error
StatementFails ==
    /\ run.pc # "idle"
    /\ run' = [run EXCEPT !.pc = "idle"]
    /\ result' = [status |-> "err", summary |-> IdleRun.summary,
                  error |-> "sqlx error"]
    /\ hist' = [hist EXCEPT !.failed = TRUE]
    /\ UNCHANGED << schema, schema_versions >>
    /\ MigrationFrame

\* CREATE TABLE IF NOT EXISTS schema_versions
create_schema_versions_table ==
    /\ run.pc = "create_schema_versions_table"
    /\ schema' = schema \cup {"schema_versions"}
    /\ run' = [run EXCEPT !.pc = "get_applied_migrations"]
    /\ UNCHANGED << schema_versions, result, hist >>
    /\ MigrationFrame

\* the position after the block of migration `version`
AfterMigration(version, applied) ==
    CASE version = 0 /\ 1 \notin applied -> "apply_initial_schema"
      [] version <= 1 /\ 2 \notin applied -> "apply_v2_schema"
      [] OTHER -> "return"

\* SELECT version FROM schema_versions ORDER BY version
get_applied_migrations ==
    /\ run.pc = "get_applied_migrations"
    /\ LET applied == {r.version : r \in schema_versions}
       IN run' = [run EXCEPT !.applied_migrations = applied,
                             !.statement = 1,
                             !.pc = AfterMigration(0, applied)]
    /\ UNCHANGED << schema, schema_versions, result, hist >>
    /\ MigrationFrame

\* one CREATE ... IF NOT EXISTS statement of the list `statements`
ApplySchema(pc, statements, next_pc) ==
    /\ run.pc = pc
    /\ schema' = schema \cup {statements[run.statement]}
    /\ run' = IF run.statement < Len(statements)
              THEN [run EXCEPT !.statement = @ + 1]
              ELSE [run EXCEPT !.statement = 1, !.pc = next_pc]
    /\ UNCHANGED << schema_versions, result, hist >>
    /\ MigrationFrame

apply_initial_schema ==
    ApplySchema("apply_initial_schema", InitialSchema, "record_initial")

apply_v2_schema ==
    ApplySchema("apply_v2_schema", V2Schema, "record_v2")

\* INSERT INTO schema_versions ... ON CONFLICT(version) DO NOTHING
\* (migration_name is UNIQUE: a conflict on it alone is an error)
record_migration(rows, version, migration_name, applied_at) ==
    IF \E r \in rows : r.version = version THEN Ok(rows)
    ELSE IF \E r \in rows : r.migration_name = migration_name
    THEN Failed(rows)
    ELSE Ok(rows \cup {SchemaVersion(version, migration_name, applied_at)})

RecordMigration(pc, version, migration_name) ==
    /\ run.pc = pc
    /\ LET res == record_migration(schema_versions, version, migration_name,
                                   to_rfc3339(clock))
       IN /\ schema_versions' = res.rows
          /\ IF res.ok
             THEN /\ run' = [run EXCEPT !.pc =
                               AfterMigration(version, run.applied_migrations)]
                  /\ UNCHANGED << result, hist >>
             ELSE /\ run' = [run EXCEPT !.pc = "idle"]
                  /\ result' = [status |-> "err",
                                summary |-> IdleRun.summary,
                                error |-> "sqlx error"]
                  /\ hist' = [hist EXCEPT !.failed = TRUE]
    /\ UNCHANGED schema
    /\ MigrationFrame

record_initial_schema == RecordMigration("record_initial", 1, "initial_schema")

record_v2_schema == RecordMigration("record_v2", 2, "add_downloads_table")

\* Ok(())
MigrationReturn ==
    /\ run.pc = "return"
    /\ run' = [run EXCEPT !.pc = "idle"]
    /\ result' = [status |-> "ok", summary |-> IdleRun.summary, error |-> ""]
    /\ hist' = IF hist.runs = 1
               THEN [hist EXCEPT !.after_first = schema_versions]
               ELSE hist
    /\ UNCHANGED << schema, schema_versions >>
    /\ MigrationFrame

NextMigration ==
    \/ MigrationStart
    \/ StatementFails
    \/ create_schema_versions_table
    \/ get_applied_migrations
    \/ apply_initial_schema
    \/ record_initial_schema
    \/ apply_v2_schema
    \/ record_v2_schema
    \/ MigrationReturn
    \/ Tick

MigrationSpec == InitMigration /\ [][NextMigration]_vars

(***************************************************************************)
(* save_miniflux_account of commands/accounts.rs, one call after another.  *)
(* Text is a sequence of characters, so that trim and the normalisation of *)
(* the server URL do what the code does.  The calls happen at one instant. *)
(***************************************************************************)
IsSpace(c) == c = " "

RECURSIVE trim_start(_)
trim_start(s) ==
    IF s # << >> /\ IsSpace(Head(s)) THEN trim_start(Tail(s)) ELSE s

RECURSIVE trim_end(_)
trim_end(s) ==
    IF s # << >> /\ IsSpace(s[Len(s)])
    THEN trim_end(SubSeq(s, 1, Len(s) - 1)) ELSE s

\* str::trim
trim(s) == trim_end(trim_start(s))

RECURSIVE trim_end_matches(_, _)
trim_end_matches(s, c) ==
    IF s # << >> /\ s[Len(s)] = c
    THEN trim_end_matches(SubSeq(s, 1, Len(s) - 1), c) ELSE s

to_lowercase(s) == [i \in 1..Len(s) |-> IF s[i] = "U" THEN "u" ELSE s[i]]

\* url.trim().trim_end_matches('/').to_lowercase().split_whitespace()
\*    .collect::<Vec<_>>().join("")
normalize_server_url(url) ==
    SelectSeq(to_lowercase(trim_end_matches(trim(url), "/")),
              LAMBDA c : ~IsSpace(c))

\* create_keyring_entry: the key of a credential
KeyringKey(server_url, username, suffix) ==
    [server_url |-> normalize_server_url(server_url),
     username |-> username, suffix |-> suffix]

\* entry.set_password(secret): the credential under the key is replaced
set_password(ring, key, secret) ==
    {e \in ring : e.key # key} \cup {[key |-> key, secret |-> secret]}

\* the configurations the front end sends
Usernames == {None, Some(<< " " >>), Some(<< "a" >>), Some(<< " ", "a" >>),
              Some(<< "b" >>)}
ServerUrls == {<< "u" >>, << "U", "/" >>}
AuthTokens == {None, Some(<< " " >>), Some(<< "t" >>)}
Passwords == {None, Some(<< "p" >>)}

AuthConfigs ==
    [server_url : ServerUrls, auth_token : AuthTokens, username : Usernames,
     password : Passwords]

\* username: the trimmed username of the last call, once it had one
IdleAccounts == [pc |-> "idle", username |-> None]
AccountResult(status, account_id, error) ==
    [status |-> status, account_id |-> account_id, error |-> error]

InitAccounts ==
    /\ schema = {"schema_versions"} \cup SeqToSet(InitialSchema)
                   \cup SeqToSet(V2Schema)
    /\ schema_versions =
          {SchemaVersion(1, "initial_schema", to_rfc3339(0)),
           SchemaVersion(2, "add_downloads_table", to_rfc3339(0))}
    /\ miniflux_accounts = {}
    /\ keyring = {}
    /\ downloads = {}
    /\ active_downloads = << >>
    /\ download_id_counter = 0
    /\ run = IdleAccounts
    /\ result = AccountResult("none", 0, "")
    /\ hist = [saved |-> 0]
    /\ clock = 0
    /\ categories = {}
    /\ feeds = {}
    /\ entries = {}
    /\ icons = {}
    /\ sync_state = << >>
    /\ remote_categories = {}
    /\ remote_feeds = {}
    /\ remote_entries = << >>

\* Option::is_some_and(|t| !t.trim().is_empty()); for the username,
\* ok_or(InvalidCredentials)?.trim() and the is_empty test
HasSecret(o) == IF IsSome(o) THEN trim(Unwrap(o)) # << >> ELSE FALSE

\* SELECT id FROM miniflux_accounts WHERE username = ? (fetch_optional)
ExistingAccounts(rows, username) ==
    {r.id : r \in {x \in rows : x.username = username}}

\* UPDATE miniflux_accounts SET server_url = ?, auth_method = ?,
\*   updated_at = ? WHERE id = ?
UpdateAccount(rows, id, server_url, auth_method, now) ==
    {IF r.id = id
     THEN [r EXCEPT !.server_url = server_url, !.auth_method = auth_method,
                    !.updated_at = now]
     ELSE r : r \in rows}

\* result.last_insert_rowid(): id is INTEGER PRIMARY KEY, one more than the
\* largest id of the table
last_insert_rowid(rows) ==
    IF rows = {} THEN 1
    ELSE (CHOOSE r \in rows : \A x \in rows : x.id <= r.id).id + 1

\* INSERT INTO miniflux_accounts (username, server_url, auth_method,
\*   is_active, created_at, updated_at) VALUES (?, ?, ?, 0, ?, ?)
InsertAccount(rows, username, server_url, auth_method, now) ==
    rows \cup {[id |-> last_insert_rowid(rows), username |-> username,
                server_url |-> server_url, auth_method |-> auth_method,
                is_active |-> FALSE, created_at |-> now, updated_at |-> now]}

\* the save that leaves the other accounts as they are
DeactivateOthers_Noop(rows, username) == rows

\* UPDATE miniflux_accounts SET is_active = 0 WHERE username != ?
DeactivateOthers(rows, username) ==
    {IF r.username # username THEN [r EXCEPT !.is_active = FALSE] ELSE r
       : r \in rows}

\* UPDATE miniflux_accounts SET is_active = 1 WHERE username = ?
ActivateAccount(rows, username) ==
    {IF r.username = username THEN [r EXCEPT !.is_active = TRUE] ELSE r
       : r \in rows}

\* the database statements of save_miniflux_account, for the account id the
\* SELECT returned (None: no row)
SavedAccounts(rows, existing, username, config, now) ==
    LET auth_method ==
            IF HasSecret(config.auth_token) THEN "token" ELSE "password"
        written ==
            IF IsSome(existing)
            THEN UpdateAccount(rows, Unwrap(existing), config.server_url,
                               auth_method, now)
            ELSE InsertAccount(rows, username, config.server_url,
                               auth_method, now)
    IN ActivateAccount(DeactivateOthers(written, username), username)

\* save_token and save_password of a call: token_ok and password_ok say
\* whether the keyring accepts the credential
SavedKeyring(ring, username, config, token_ok, password_ok) ==
    LET with_token ==
            IF HasSecret(config.auth_token) /\ token_ok
            THEN set_password(ring,
                     KeyringKey(config.server_url, username, "token"),
                     Unwrap(config.auth_token))
            ELSE ring
    IN IF (HasSecret(config.auth_token) => token_ok)
          /\ HasSecret(config.password) /\ password_ok
       THEN set_password(with_token,
                KeyringKey(config.server_url, username, "password"),
                Unwrap(config.password))
       ELSE with_token

\* a call of the command with no database pool, no username or an empty
\* one, or neither a token nor a password: it returns before any statement
RejectMinifluxAccount ==
    /\ run.pc = "idle"
    /\ \E config \in AuthConfigs, pool \in BOOLEAN :
         /\ \/ ~pool
            \/ ~HasSecret(config.username)
            \/ ~HasSecret(config.auth_token) /\ ~HasSecret(config.password)
         /\ run' = [run EXCEPT !.username = None]
         /\ result' = AccountResult("err", 0,
                          IF pool THEN "InvalidCredentials" ELSE "NotFound")
    /\ UNCHANGED << store, sync_state, remote, clock, hist, others >>

\* a call of the command that reaches the database
SaveMinifluxAccount ==
    /\ run.pc = "idle"
    /\ \E config \in AuthConfigs, token_ok, password_ok \in BOOLEAN :
         /\ HasSecret(config.username)
         /\ HasSecret(config.auth_token) \/ HasSecret(config.password)
         /\ LET username == trim(Unwrap(config.username))
                found == ExistingAccounts(miniflux_accounts, username)
            IN /\ \E existing \in IF found = {} THEN {None}
                                   ELSE {Some(id) : id \in found} :
                    /\ miniflux_accounts' =
                          SavedAccounts(miniflux_accounts, existing, username,
                                        config, to_rfc3339(clock))
                    /\ result' =
                          IF /\ HasSecret(config.auth_token) => token_ok
                             /\ HasSecret(config.password) => password_ok
                          THEN AccountResult("ok",
                                   IF IsSome(existing) THEN Unwrap(existing)
                                   ELSE last_insert_rowid(miniflux_accounts),
                                   "")
                          ELSE AccountResult("err", 0, "KeyringError")
               /\ keyring' = SavedKeyring(keyring, username, config,
                                          token_ok, password_ok)
         /\ run' = [run EXCEPT !.username =
                                  Some(trim(Unwrap(config.username)))]
    /\ hist' = [hist EXCEPT !.saved = Min(@ + 1, 2)]
    /\ UNCHANGED << store, sync_state, remote, clock, schema,
                    schema_versions, download_vars >>

NextAccounts ==
    \/ RejectMinifluxAccount
    \/ SaveMinifluxAccount

AccountSpec == InitAccounts /\ [][NextAccounts]_vars

(***************************************************************************)
(* save_miniflux_account called by several callers at once (the command is *)
(* async, takes no lock and opens no transaction; miniflux_connect calls   *)
(* it after every successful login): the statements of the calls           *)
(* interleave at the awaits.  Every call carries a token.                  *)
(***************************************************************************)
CallUsernames == {<< "a" >>, << "b" >>}

CallConfig(username) ==
    [server_url |-> << "u" >>, auth_token |-> Some(<< "t" >>),
     username |-> Some(username), password |-> None]

IdleCall == [pc |-> "idle", username |-> << >>, account_id |-> 0]

InitCalls ==
    /\ schema = {"schema_versions"} \cup SeqToSet(InitialSchema)
                   \cup SeqToSet(V2Schema)
    /\ schema_versions =
          {SchemaVersion(1, "initial_schema", to_rfc3339(0)),
           SchemaVersion(2, "add_downloads_table", to_rfc3339(0))}
    /\ miniflux_accounts = {}
    /\ keyring = {}
    /\ downloads = {}
    /\ active_downloads = << >>
    /\ download_id_counter = 0
    /\ run = [c \in Callers |-> IdleCall]
    /\ result = [c \in Callers |-> AccountResult("none", 0, "")]
    /\ hist = [saved |-> 0]
    /\ clock = 0
    /\ categories = {}
    /\ feeds = {}
    /\ entries = {}
    /\ icons = {}
    /\ sync_state = << >>
    /\ remote_categories = {}
    /\ remote_feeds = {}
    /\ remote_entries = << >>

CallFrame ==
    UNCHANGED << store, sync_state, remote, clock, schema, schema_versions,
                 download_vars >>

\* the call passes its checks: pool, username, token
SaveCallStart(c) ==
    /\ run[c].pc = "idle"
    /\ \E username \in CallUsernames :
         /\ HasSecret(CallConfig(username).username)
         /\ HasSecret(CallConfig(username).auth_token)
         /\ run' = [run EXCEPT ![c] =
                      [IdleCall EXCEPT !.pc = "select",
                                       !.username = trim(username)]]
    /\ UNCHANGED << miniflux_accounts, keyring, result, hist >>
    /\ CallFrame

\* SELECT id FROM miniflux_accounts WHERE username = ?
SelectExisting(c) ==
    /\ run[c].pc = "select"
    /\ LET found == ExistingAccounts(miniflux_accounts, run[c].username)
       IN IF found = {}
          THEN run' = [run EXCEPT ![c].pc = "insert"]
          ELSE \E id \in found :
                 run' = [run EXCEPT ![c].pc = "update", ![c].account_id = id]
    /\ UNCHANGED << miniflux_accounts, keyring, result, hist >>
    /\ CallFrame

\* the UPDATE of the row the SELECT found
UpdateExisting(c) ==
    /\ run[c].pc = "update"
    /\ miniflux_accounts' =
          UpdateAccount(miniflux_accounts, run[c].account_id,
                        CallConfig(run[c].username).server_url, "token",
                        to_rfc3339(clock))
    /\ run' = [run EXCEPT ![c].pc = "deactivate"]
    /\ UNCHANGED << keyring, result, hist >>
    /\ CallFrame

\* the INSERT of a new row and last_insert_rowid()
InsertNew(c) ==
    /\ run[c].pc = "insert"
    /\ miniflux_accounts' =
          InsertAccount(miniflux_accounts, run[c].username,
                        CallConfig(run[c].username).server_url, "token",
                        to_rfc3339(clock))
    /\ run' = [run EXCEPT ![c].pc = "deactivate",
                          ![c].account_id =
                              last_insert_rowid(miniflux_accounts)]
    /\ UNCHANGED << keyring, result, hist >>
    /\ CallFrame

\* UPDATE miniflux_accounts SET is_active = 0 WHERE username != ?
DeactivateOtherAccounts(c) ==
    /\ run[c].pc = "deactivate"
    /\ miniflux_accounts' = DeactivateOthers(miniflux_accounts,
                                             run[c].username)
    /\ run' = [run EXCEPT ![c].pc = "activate"]
    /\ UNCHANGED << keyring, result, hist >>
    /\ CallFrame

\* UPDATE miniflux_accounts SET is_active = 1 WHERE username = ?
ActivateOwnAccount(c) ==
    /\ run[c].pc = "activate"
    /\ miniflux_accounts' = ActivateAccount(miniflux_accounts,
                                            run[c].username)
    /\ run' = [run EXCEPT ![c].pc = "save_token"]
    /\ UNCHANGED << keyring, result, hist >>
    /\ CallFrame

\* save_token, then Ok(account_id), or the error of the keyring
SaveCredentials(c) ==
    /\ run[c].pc = "save_token"
    /\ \E token_ok \in BOOLEAN :
         /\ keyring' = SavedKeyring(keyring, run[c].username,
                                    CallConfig(run[c].username),
                                    token_ok, TRUE)
         /\ result' = [result EXCEPT ![c] =
                          IF token_ok
                          THEN AccountResult("ok", run[c].account_id, "")
                          ELSE AccountResult("err", 0, "KeyringError")]
    /\ run' = [run EXCEPT ![c].pc = "done"]
    /\ hist' = [hist EXCEPT !.saved = @ + 1]
    /\ UNCHANGED miniflux_accounts
    /\ CallFrame

NextCalls ==
    \E c \in Callers :
        \/ SaveCallStart(c)
        \/ SelectExisting(c)
        \/ UpdateExisting(c)
        \/ InsertNew(c)
        \/ DeactivateOtherAccounts(c)
        \/ ActivateOwnAccount(c)
        \/ SaveCredentials(c)

CallsSpec == InitCalls /\ [][NextCalls]_vars

(***************************************************************************)
(* The download manager: download_file, perform_download and               *)
(* cancel_download.  The commands are async and share the list             *)
(* active_downloads and the downloads table; their steps interleave at the *)
(* awaits.  A download arrives in two chunks.  The pool is there and the   *)
(* statements succeed; byte counts, file names, timestamps and the         *)
(* download-progress events are left out.                                  *)
(***************************************************************************)
DownloadUrls == {"x", "y"}
DownloadIds == 0..(MaxDownloads - 1)
FilePath(url) == << "downloads", url >>

\* the variants of DownloadState
Downloading(id, url) ==
    [state |-> "Downloading", id |-> id, url |-> url, progress |-> 0]
Completed(id, url) ==
    [state |-> "Completed", id |-> id, url |-> url, progress |-> 100]
FailedDownload(id, url) ==
    [state |-> "Failed", id |-> id, url |-> url, progress |-> 0]
Cancelled(id, url) ==
    [state |-> "Cancelled", id |-> id, url |-> url, progress |-> 0]

\* INSERT INTO downloads (...) VALUES (...) ON CONFLICT(id) DO UPDATE SET
\*   status, progress, file_path = COALESCE(excluded.file_path,
\*   downloads.file_path), error
save_download_to_db(rows, id, url, status, progress, file_path, error) ==
    IF \E r \in rows : r.id = id
    THEN {IF r.id = id
          THEN [r EXCEPT !.status = status, !.progress = progress,
                         !.file_path = IF IsSome(file_path) THEN file_path
                                       ELSE @,
                         !.error = error]
          ELSE r : r \in rows}
    ELSE rows \cup {[id |-> id, url |-> url, status |-> status,
                     progress |-> progress, file_path |-> file_path,
                     error |-> error]}

NoTask == [pc |-> "none", url |-> "", progress |-> 0]
IdleCancel == [pc |-> "idle", url |-> "", id |-> None]
DownloadResult(command, status) == [command |-> command, status |-> status]

InitDownloads ==
    /\ Migrated
    /\ run = [tasks |-> [id \in DownloadIds |-> NoTask],
              cancel |-> IdleCancel]
    /\ result = DownloadResult("none", "none")
    /\ hist = [cancelled |-> {}]
    /\ clock = 0
    /\ categories = {}
    /\ feeds = {}
    /\ entries = {}
    /\ icons = {}
    /\ sync_state = << >>
    /\ remote_categories = {}
    /\ remote_feeds = {}
    /\ remote_entries = << >>

DownloadFrame ==
    UNCHANGED << store, sync_state, remote, clock, schema, schema_versions,
                 miniflux_accounts, keyring >>

TaskAt(id, pc) == id \in DownloadIds /\ run.tasks[id].pc = pc
TaskGoto(id, pc) == run' = [run EXCEPT !.tasks[id].pc = pc]

\* download_file is called: get_next_download_id()
DownloadStart ==
    /\ download_id_counter \in DownloadIds
    /\ \E url \in DownloadUrls :
         run' = [run EXCEPT !.tasks[download_id_counter] =
                    [NoTask EXCEPT !.pc = "save_downloading", !.url = url]]
    /\ download_id_counter' = download_id_counter + 1
    /\ UNCHANGED << downloads, active_downloads, result, hist >>
    /\ DownloadFrame

\* save_download_to_db(status: "downloading", progress: 0)
SaveDownloading(id) ==
    /\ TaskAt(id, "save_downloading")
    /\ downloads' = save_download_to_db(downloads, id, run.tasks[id].url,
                                        "downloading", 0, None, None)
    /\ TaskGoto(id, "push_downloading")
    /\ UNCHANGED << active_downloads, download_id_counter, result, hist >>
    /\ DownloadFrame

\* active_downloads.lock().unwrap().push(download_state)
PushDownloading(id) ==
    /\ TaskAt(id, "push_downloading")
    /\ active_downloads' =
          Append(active_downloads, Downloading(id, run.tasks[id].url))
    /\ TaskGoto(id, "perform")
    /\ UNCHANGED << downloads, download_id_counter, result, hist >>
    /\ DownloadFrame

\* perform_download returns an error: no path, the request or a chunk
\* fails, the file cannot be written
PerformFails(id) ==
    /\ TaskAt(id, "perform")
    /\ TaskGoto(id, "save_failed")
    /\ UNCHANGED << download_vars, result, hist >>
    /\ DownloadFrame

\* perform_download receives a chunk, half of the file:
\* save_download_to_db(status: "downloading", progress)
PerformChunk(id) ==
    /\ TaskAt(id, "perform")
    /\ run.tasks[id].progress < 100
    /\ LET progress == run.tasks[id].progress + 50
       IN /\ downloads' = save_download_to_db(downloads, id,
                              run.tasks[id].url, "downloading", progress,
                              None, None)
          /\ run' = [run EXCEPT !.tasks[id].progress = progress]
    /\ UNCHANGED << active_downloads, download_id_counter, result, hist >>
    /\ DownloadFrame

\* the stream has ended: file.flush(), Ok(file_path)
PerformReturns(id) ==
    /\ TaskAt(id, "perform")
    /\ run.tasks[id].progress = 100
    /\ TaskGoto(id, "save_completed")
    /\ UNCHANGED << download_vars, result, hist >>
    /\ DownloadFrame

\* download_file, Ok arm: save_download_to_db(status: "completed")
SaveCompleted(id) ==
    /\ TaskAt(id, "save_completed")
    /\ downloads' = save_download_to_db(downloads, id, run.tasks[id].url,
                        "completed", 100, Some(FilePath(run.tasks[id].url)),
                        None)
    /\ TaskGoto(id, "push_completed")
    /\ UNCHANGED << active_downloads, download_id_counter, result, hist >>
    /\ DownloadFrame

\* download_file, Ok arm: downloads.push(completed_state), return
PushCompleted(id) ==
    /\ TaskAt(id, "push_completed")
    /\ active_downloads' =
          Append(active_downloads, Completed(id, run.tasks[id].url))
    /\ TaskGoto(id, "done")
    /\ result' = DownloadResult("download_file", "ok")
    /\ UNCHANGED << downloads, download_id_counter, hist >>
    /\ DownloadFrame

\* download_file, Err arm: save_download_to_db(status: "failed")
SaveFailed(id) ==
    /\ TaskAt(id, "save_failed")
    /\ downloads' = save_download_to_db(downloads, id, run.tasks[id].url,
                        "failed", 0, None, Some("Download chunk error"))
    /\ TaskGoto(id, "push_failed")
    /\ UNCHANGED << active_downloads, download_id_counter, result, hist >>
    /\ DownloadFrame

\* download_file, Err arm: downloads.push(failed_state), return
PushFailed(id) ==
    /\ TaskAt(id, "push_failed")
    /\ active_downloads' =
          Append(active_downloads, FailedDownload(id, run.tasks[id].url))
    /\ TaskGoto(id, "done")
    /\ result' = DownloadResult("download_file", "err")
    /\ UNCHANGED << downloads, download_id_counter, hist >>
    /\ DownloadFrame

\* downloads.iter().position(|d| matches Downloading with the url / the id)
PositionOfUrl(list, url) ==
    {i \in DOMAIN list :
        /\ list[i].state = "Downloading" /\ list[i].url = url
        /\ \A j \in 1..(i - 1) :
             ~(list[j].state = "Downloading" /\ list[j].url = url)}
PositionOfId(list, id) ==
    {i \in DOMAIN list :
        /\ list[i].state = "Downloading" /\ list[i].id = id
        /\ \A j \in 1..(i - 1) :
             ~(list[j].state = "Downloading" /\ list[j].id = id)}

\* cancel_download is called: the first lock scope looks the url up; with
\* no Downloading state of that url the command returns an error
CancelFind ==
    /\ run.cancel.pc = "idle"
    /\ \E url \in DownloadUrls :
         LET found == PositionOfUrl(active_downloads, url)
         IN IF found = {}
            THEN /\ result' = DownloadResult("cancel_download", "err")
                 /\ UNCHANGED run
            ELSE /\ \E i \in found :
                      run' = [run EXCEPT !.cancel =
                                 [pc |-> "replace", url |-> url,
                                  id |-> Some(active_downloads[i].id)]]
                 /\ UNCHANGED result
    /\ UNCHANGED << download_vars, hist >>
    /\ DownloadFrame

\* the second lock scope: downloads[index] = DownloadState::Cancelled {..}
CancelReplace ==
    /\ run.cancel.pc = "replace"
    /\ LET id == run.cancel.id[1]
           found == PositionOfId(active_downloads, id)
       IN /\ active_downloads' =
                [i \in DOMAIN active_downloads |->
                    IF i \in found THEN Cancelled(id, run.cancel.url)
                    ELSE active_downloads[i]]
          /\ hist' = IF found = {} THEN hist
                     ELSE [hist EXCEPT !.cancelled = @ \cup {id}]
    /\ run' = [run EXCEPT !.cancel.pc = "save_cancelled"]
    /\ UNCHANGED << downloads, download_id_counter, result >>
    /\ DownloadFrame

\* save_download_to_db(status: "cancelled"), the event, Ok(())
CancelSave ==
    /\ run.cancel.pc = "save_cancelled"
    /\ downloads' = save_download_to_db(downloads, run.cancel.id[1],
                        run.cancel.url, "cancelled", 0, None, None)
    /\ run' = [run EXCEPT !.cancel = IdleCancel]
    /\ result' = DownloadResult("cancel_download", "ok")
    /\ UNCHANGED << active_downloads, download_id_counter, hist >>
    /\ DownloadFrame

NextDownloads ==
    \/ DownloadStart
    \/ CancelFind
    \/ CancelReplace
    \/ CancelSave
    \/ \E id \in DownloadIds :
        \/ SaveDownloading(id)
        \/ PushDownloading(id)
        \/ PerformFails(id)
        \/ PerformChunk(id)
        \/ PerformReturns(id)
        \/ SaveCompleted(id)
        \/ PushCompleted(id)
        \/ SaveFailed(id)
        \/ PushFailed(id)

DownloadSpec == InitDownloads /\ [][NextDownloads]_vars

(***************************************************************************)
(* Properties                                                              *)
(***************************************************************************)
\* the last execution of the sync command has returned
RunEnded == run.pc = "idle" /\ hist.runs > 0
Succeeded == RunEnded /\ result.status = "ok"
Errored == RunEnded /\ result.status = "err"

OwnStale(rows) ==
    {r \in rows : r.user_id = run.user_id /\ r.sync_status = "stale"}

OnceSynced(rows, id) ==
    /\ Cardinality({r \in rows : r.id = id}) = 1
    /\ \A r \in rows : r.id = id => r.sync_status = "synced"

\* C1: after a successful full sync against a remote that did not change
\* during the run, every category, feed and entry the remote reports is
\* in the local store exactly once, marked synced, and no row of the
\* authenticated user is marked stale.
C1_FullSyncCompleteness ==
    (Succeeded /\ run.is_full_sync /\ ~hist.remote_changed) =>
        /\ \A c \in remote_categories : OnceSynced(categories, c.id)
        /\ \A f \in remote_feeds : OnceSynced(feeds, f.id)
        /\ \A i \in 1..Len(remote_entries) :
              OnceSynced(entries, remote_entries[i].id)
        /\ OwnStale(categories) = {}
        /\ OwnStale(feeds) = {}
        /\ OwnStale(entries) = {}

\* a successful full sync of a collection of more than one page, after an
\* earlier run left rows of the same user in the store
C1_Witness ==
    /\ Succeeded /\ run.is_full_sync /\ ~hist.remote_changed
    /\ remote_categories # {} /\ remote_feeds # {}
    /\ Len(remote_entries) > WindowLimit
    /\ hist.requests > 1
    /\ \E k \in hist.pre_entries : k.user_id = run.user_id

\* C2: after a successful full sync, a category, feed or entry of the
\* authenticated user that was in the local store before the run and that
\* the remote's category list, feed list and entry pages did not contain is
\* no longer in the local store.
C2_FullSyncTombstoning ==
    (Succeeded /\ run.is_full_sync) =>
        /\ \A k \in hist.pre_categories :
              (k.user_id = run.user_id
               /\ k.id \notin SeqToSet(run.category_ids))
              => k.id \notin Ids(categories)
        /\ \A k \in hist.pre_feeds :
              (k.user_id = run.user_id /\ k.id \notin SeqToSet(run.feed_ids))
              => k.id \notin Ids(feeds)
        /\ \A k \in hist.pre_entries :
              (k.user_id = run.user_id /\ k.id \notin hist.pulled)
              => k.id \notin Ids(entries)

\* a successful full sync that found a feed and an entry of the user in the
\* store which the remote no longer listed
C2_Witness ==
    /\ Succeeded /\ run.is_full_sync
    /\ \E k \in hist.pre_feeds :
          k.user_id = run.user_id /\ k.id \notin SeqToSet(run.feed_ids)
    /\ \E k \in hist.pre_entries :
          k.user_id = run.user_id /\ k.id \notin hist.pulled

\* C3: once a full-sync run has ended, with a summary or with an error, no
\* category, feed or entry row is marked stale.
C3_NoStaleAfterFullRun ==
    (RunEnded /\ run.is_full_sync) =>
        \A r \in categories \cup feeds \cup entries :
            r.sync_status # "stale"

\* the SyncState the run read at its start
Snapshot == Unwrap(run.sync_state)

\* the run is past reading SyncState and takes the incremental path
Incremental == IsSome(run.sync_state) /\ ~run.is_full_sync

\* an entry the incremental run is to delete: removed on the server at or
\* after the previous last_sync_at
RemovedSince(e) ==
    /\ e.user_id = run.user_id
    /\ e.status = "removed"
    /\ IsSome(e.changed_at)
    /\ IsSome(Snapshot.last_sync_at)
    /\ InstantOf(Unwrap(e.changed_at))
         >= InstantOf(Unwrap(Snapshot.last_sync_at))

\* C4: by the end of a successful incremental run, every local entry of
\* the authenticated user with status removed and changed_at at or after
\* the previous last_sync_at has been deleted.
C4_RemovedEntriesDeleted ==
    (Succeeded /\ Incremental) => \A e \in entries : ~RemovedSince(e)

\* C5: a step of an incremental run deletes no entry other than a removed
\* entry of the authenticated user with changed_at at or after the previous
\* last_sync_at, and leaves an entry that no page contained as it is.
C5_IncrementalDeletesOnlyRemoved ==
    [][(run.pc # "idle" /\ Incremental) =>
         \A e \in entries :
            /\ e.id \notin Ids(entries') => RemovedSince(e)
            /\ (e.id \in Ids(entries') /\ e.id \notin hist'.pulled)
                  => e \in entries']_vars

\* the feeds a returned delete_removed_feeds call was to delete
Doomed ==
    {f \in hist.feeds :
        f.user_id = run.user_id /\ f.id \notin SeqToSet(run.feed_ids)}

OwnerOfFeed(id) == {f.user_id : f \in {x \in hist.feeds : x.id = id}}

\* C6: delete_removed_feeds(user, ids) deletes exactly the feeds of user
\* whose id is not in ids, and leaves every feed, entry and icon of another
\* user unchanged.
C6_DeleteRemovedFeedsExact ==
    run.pc = "returned" =>
        /\ feeds = hist.feeds \ Doomed
        /\ \A e \in hist.entries : e.user_id # run.user_id => e \in entries
        /\ \A i \in hist.icons :
              run.user_id \notin OwnerOfFeed(i.feed_id) => i \in icons

\* C7: when delete_removed_feeds removes a feed that still has entries and
\* icons, it succeeds, removes the entries and icons of that feed, and
\* keeps the entries and icons of the feeds it keeps.
C7_DeleteRemovedFeedsDependents ==
    (/\ run.pc = "returned"
     /\ \E f \in Doomed :
          /\ \E e \in hist.entries : e.feed_id = f.id
          /\ \E i \in hist.icons : i.feed_id = f.id) =>
        /\ result.status = "ok"
        /\ Doomed \cap feeds = {}
        /\ \A e \in entries : e.feed_id \notin Ids(Doomed)
        /\ \A i \in icons : i.feed_id \notin Ids(Doomed)
        /\ \A e \in hist.entries : e.feed_id \notin Ids(Doomed) => e \in entries
        /\ \A i \in hist.icons : i.feed_id \notin Ids(Doomed) => i \in icons

\* C8: an incremental run to which the remote reports an empty feed list
\* (or an empty category list), and in which no request fails, succeeds
\* and leaves the authenticated user without feed rows (category rows).
C8_EmptyRemoteListClears ==
    LET no_categories == run.category_ids = << >>
        no_feeds == run.summary.categories_pulled > 0 /\ run.feed_ids = << >>
    IN (RunEnded /\ Incremental /\ ~hist.injected
        /\ (no_categories \/ no_feeds)) =>
           /\ result.status = "ok"
           /\ no_feeds => \A f \in feeds : f.user_id # run.user_id
           /\ no_categories => \A c \in categories : c.user_id # run.user_id

\* C9: once last_full_sync_at is set, no step changes it.
C9_FullSyncLatch ==
    [][\A i \in 1..Len(sync_state) :
          IsSome(sync_state[i].last_full_sync_at) =>
             /\ Len(sync_state') >= i
             /\ sync_state'[i].last_full_sync_at
                  = sync_state[i].last_full_sync_at]_vars

\* a run succeeded and a later run, at a later instant, has failed:
\* last_full_sync_at is still the time of the first
C9_Witness ==
    /\ hist.successes >= 1
    /\ Errored
    /\ Incremental
    /\ Len(sync_state) = 1
    /\ IsSome(sync_state[1].last_full_sync_at)
    /\ InstantOf(Unwrap(sync_state[1].last_full_sync_at)) < run.now

MarkStalePcs ==
    {"mark_categories_stale", "mark_feeds_stale", "mark_entries_stale"}
DeleteStalePcs ==
    {"delete_stale_entries", "delete_stale_feeds", "delete_stale_categories"}

LastFullSyncAt ==
    IF Len(sync_state) = 0 THEN None ELSE sync_state[1].last_full_sync_at

\* C10: a run marks rows stale and deletes stale rows if and only if
\* last_full_sync_at was NULL when it read SyncState, and last_full_sync_at
\* is NULL if and only if no earlier run has succeeded.
C10_FullSyncBranching ==
    /\ [](run.pc \in MarkStalePcs \cup DeleteStalePcs
            => IsNone(Snapshot.last_full_sync_at))
    /\ [][/\ (run.pc = "get_current_user"
              /\ run'.pc \notin {"get_current_user", "abort"})
                => (run'.pc = "mark_categories_stale"
                      <=> IsNone(Snapshot.last_full_sync_at))
          /\ (run'.pc \in {"delete_stale_entries", "delete_removed_entries"}
              /\ run.pc # run'.pc)
                => (run'.pc = "delete_stale_entries"
                      <=> IsNone(Snapshot.last_full_sync_at))]_vars
    /\ [](IsNone(LastFullSyncAt) <=> hist.successes = 0)

\* the second run is again deleting stale rows, because the first failed
C10_Witness ==
    /\ run.pc = "delete_stale_feeds"
    /\ hist.runs = 2
    /\ hist.successes = 0

\* the row of sync_state
Row == sync_state[1]

\* C11: when a run has returned a summary, sync_state has sync_in_progress
\* false, sync_error NULL, last_sync_at equal to the time the run started,
\* and last_full_sync_at not NULL.
C11_SuccessState ==
    Succeeded =>
        /\ Len(sync_state) = 1
        /\ ~Row.sync_in_progress
        /\ IsNone(Row.sync_error)
        /\ Row.last_sync_at = Some(to_rfc3339(run.now))
        /\ IsSome(Row.last_full_sync_at)

\* a run has succeeded at a later instant than a run that failed and left
\* its error in sync_state
C11_Witness ==
    /\ Succeeded
    /\ hist.runs = 2
    /\ hist.successes = 1
    /\ run.now > 0

\* C12: when the command has returned an error, it is the error of the
\* step that failed, and sync_state has sync_in_progress false, sync_error
\* equal to the returned message, and last_sync_at and last_full_sync_at as
\* they were when the run read them.
C12_ErrorState ==
    Errored =>
        /\ result.error = run.error
        /\ Len(sync_state) = 1
        /\ ~Row.sync_in_progress
        /\ Row.sync_error = Some(result.error)
        /\ Row.last_sync_at = Snapshot.last_sync_at
        /\ Row.last_full_sync_at = Snapshot.last_full_sync_at

\* a statement on the local store failed in a run that followed a
\* successful one
C12_Witness ==
    /\ Errored
    /\ ~hist.injected
    /\ IsSome(Row.last_sync_at)
    /\ IsSome(Row.last_full_sync_at)

InProgress == \E i \in 1..Len(sync_state) : sync_state[i].sync_in_progress

\* C13: sync_in_progress, once true, becomes false again, and it is false
\* whenever no execution of the command is under way.
C13_InProgressResets ==
    /\ [](run.pc = "idle" => ~InProgress)
    /\ (InProgress ~> ~InProgress)

\* the second execution has returned an error after a request failed, and
\* sync_in_progress is false again
C13_Witness ==
    /\ Errored
    /\ hist.injected
    /\ hist.runs = 2
    /\ ~InProgress

\* the categories and feeds the run has upserted
UpsertedCategories ==
    IF run.summary.categories_pulled = 0 THEN {}
    ELSE {Synced(run.categories[i]) : i \in 1..Len(run.categories)}
UpsertedFeeds ==
    IF run.summary.feeds_pulled = 0 THEN {}
    ELSE {Synced(run.feeds[i]) : i \in 1..Len(run.feeds)}

\* C14 as stated: when a run has failed, every category, feed and entry it
\* upserted is in the local store with the values it pulled.
C14_UpsertsSurviveFailure ==
    Errored =>
        /\ UpsertedCategories \subseteq categories
        /\ UpsertedFeeds \subseteq feeds
        /\ hist.upserted \subseteq entries

\* C15: in a run that follows a successful run, with no change on the
\* server since that run began, no step changes a category, feed or entry
\* row: the store after the second run is the store after the first.
C15_Idempotence ==
    [][(/\ run.pc # "idle"
        /\ hist.successes >= 1
        /\ ~hist.changed_since_success
        /\ ~hist'.changed_since_success)
          => << categories, feeds, entries >>'
               = << categories, feeds, entries >>]_vars

\* C16: a successful run returns categories_pulled and feeds_pulled equal
\* to the lengths of the lists the server sent, entries_pulled equal to the
\* number of entry rows received over all its pages, and entries_pushed 0.
C16_SummaryCounts ==
    Succeeded =>
        /\ result.summary.categories_pulled = Len(run.categories)
        /\ result.summary.feeds_pulled = Len(run.feeds)
        /\ result.summary.entries_pulled = hist.received
        /\ result.summary.entries_pushed = 0

\* a successful run that received its entries in more than one page
C16_Witness ==
    /\ Succeeded
    /\ hist.requests >= 2
    /\ hist.received > WindowLimit
    /\ result.summary.categories_pulled > 0
    /\ result.summary.feeds_pulled > 1

\* the calls of get_or_create_sync_state that have returned
Returned == {c \in Callers : run[c].pc = "done"}

\* C17: once a call of get_or_create_sync_state has returned, also when
\* calls overlap, sync_state holds exactly one row and every call that
\* returned has returned that row.
C17_SingleSyncStateRow ==
    Returned # {} =>
        /\ Len(sync_state) = 1
        /\ \A c \in Returned : run[c].ret = Some(sync_state[1])

\* C18: a call on a table without a row returns, and leaves in the table,
\* a row with sync_in_progress false, no timestamps, no error and
\* sync_version 1; a call on a table with a row returns that row and leaves
\* the table as it was.
C18_GetOrCreateSyncState ==
    \A c \in Returned :
        IF hist.initial = << >>
        THEN /\ Len(sync_state) >= 1
             /\ \A i \in 1..Len(sync_state) : sync_state[i] = Unwrap(run[c].ret)
             /\ ~Unwrap(run[c].ret).sync_in_progress
             /\ IsNone(Unwrap(run[c].ret).last_sync_at)
             /\ IsNone(Unwrap(run[c].ret).last_full_sync_at)
             /\ IsNone(Unwrap(run[c].ret).sync_error)
             /\ Unwrap(run[c].ret).sync_version = 1
        ELSE /\ run[c].ret = Some(hist.initial[1])
             /\ sync_state = hist.initial

\* every call has returned, the first after inserting the row into the
\* empty table, the others after finding it there
C18_Witness ==
    /\ Returned = Callers
    /\ hist.initial = << >>
    /\ Len(sync_state) = 1

\* C19: an invocation of the command that arrives while sync_in_progress
\* is true is not answered with an error: it waits, and the next execution
\* to start is its own, from the first step.
C19_NotRejectedWhileInProgress ==
    /\ [][(hist'.invoked > hist.invoked /\ InProgress)
            => (run'.waiting = run.waiting + 1 /\ result' = result)]_vars
    /\ [][run'.waiting < run.waiting
            => (/\ run.pc = "idle"
                /\ run'.pc = "get_or_create_sync_state"
                /\ run'.waited)]_vars
    /\ [](run.waiting > 0 /\ run.pc = "idle" => ENABLED SyncStart)

\* the invocation that arrived during the first run has executed every
\* step and returned a summary
C19_Witness ==
    /\ Succeeded
    /\ run.waited
    /\ hist.runs = 2

OfOtherUsers(rows) == {r \in rows : r.user_id # RemoteUser}

\* C20: no step of a run as the remote's user changes, removes or adds a
\* category, feed or entry row of another user, whatever the row's id.
C20_OtherUsersRowsUnchanged ==
    [][/\ OfOtherUsers(categories') = OfOtherUsers(categories)
       /\ OfOtherUsers(feeds') = OfOtherUsers(feeds)
       /\ OfOtherUsers(entries') = OfOtherUsers(entries)]_vars

Emitted(name) == {i \in DOMAIN run.events : run.events[i].name = name}

\* C21: an execution has emitted sync-started before any step of it writes
\* sync_state; it emits sync-completed at most once, in a step taken after
\* the success update has been written and that returns the summary the
\* event carries; an execution that returned an error has not emitted it.
C21_EventOrder ==
    /\ [][sync_state' # sync_state
            => (Emitted("sync-started") = {1}
                /\ Emitted("sync-completed") = {})]_vars
    /\ [](Cardinality(Emitted("sync-completed")) <= 1)
    /\ [][run'.events # run.events /\ run'.pc = "idle"
            => (/\ run'.events = Append(run.events,
                                        SyncCompleted(result'.summary))
                /\ result'.status = "ok"
                /\ sync_state' = sync_state
                /\ \A i \in DOMAIN sync_state :
                      /\ ~sync_state[i].sync_in_progress
                      /\ sync_state[i].sync_error = None
                      /\ sync_state[i].last_sync_at
                            = Some(to_rfc3339(run.now)))]_vars
    /\ [](Errored => Emitted("sync-completed") = {})

\* a run has written the success update, emitted both events and returned
\* a summary that counts pulled rows
C21_Witness ==
    /\ Succeeded
    /\ run.events = << SyncStarted, SyncCompleted(result.summary) >>
    /\ result.summary.categories_pulled > 0
    /\ result.summary.entries_pulled > 0

\* C23: once run_migrations has been run twice on a fresh database, with no
\* statement failing, both runs have succeeded, and schema_versions holds
\* exactly one row and holds what it held after the first run.
C23_MigrationIdempotent ==
    (run.pc = "idle" /\ hist.runs = 2 /\ ~hist.failed)
        => /\ result.status = "ok"
           /\ Cardinality(schema_versions) = 1
           /\ schema_versions = hist.after_first

ActiveAccounts == {r \in miniflux_accounts : r.is_active}

\* C22: when a call of save_miniflux_account that reached the database has
\* completed, and no other call ran meanwhile, exactly one account is
\* active: the one of the call's username, whose id the call returns.
C22_OneActiveAccount ==
    (result.status = "ok" \/ result.error = "KeyringError")
        => /\ Cardinality(ActiveAccounts) = 1
           /\ \A r \in ActiveAccounts :
                 /\ r.username = Unwrap(run.username)
                 /\ result.status = "ok" => r.id = result.account_id

\* a second account was saved and then the first one again: that call
\* updated the first row and moved the active flag back to it
C22_Witness ==
    /\ result.status = "ok"
    /\ Cardinality(miniflux_accounts) = 2
    /\ result.account_id = 1
    /\ \E r \in miniflux_accounts : ~r.is_active

\* the feeds and categories the delete about to be issued applies to
FeedsToDelete ==
    CASE run.pc = "delete_stale_feeds" -> OwnStale(feeds)
      [] run.pc = "delete_removed_feeds" ->
            {f \in feeds : /\ f.user_id = run.user_id
                           /\ Len(run.feed_ids) > 0
                                => f.id \notin SeqToSet(run.feed_ids)}
      [] OTHER -> {}

CategoriesToDelete ==
    CASE run.pc = "delete_stale_categories" -> OwnStale(categories)
      [] run.pc = "delete_removed_categories" ->
            {c \in categories :
                /\ c.user_id = run.user_id
                /\ Len(run.category_ids) > 0
                     => c.id \notin SeqToSet(run.category_ids)}
      [] OTHER -> {}

\* C24: a run issues its deletes for entries, then feeds, then categories;
\* when the feed delete is issued no entry references a feed it deletes,
\* when the category delete is issued no feed references a category it
\* deletes, and so no delete fails.
C24_DeletesKeepIntegrity ==
    /\ [][/\ run.pc = "delete_stale_entries"
              => run'.pc \in {run.pc, "delete_stale_feeds"}
          /\ run.pc = "delete_removed_entries"
              => run'.pc \in {run.pc, "delete_removed_feeds"}
          /\ run'.pc \in {"delete_stale_feeds", "delete_removed_feeds"}
              => run.pc \in {run'.pc, "delete_stale_entries",
                             "delete_removed_entries"}]_vars
    /\ [](\A f \in FeedsToDelete : \A e \in entries : e.feed_id # f.id)
    /\ [](\A c \in CategoriesToDelete :
            \A f \in feeds : f.category_id # Some(c.id))

\* a step that sends an entry request
EntryRequest == hist'.requests = hist.requests + 1

\* C25: the k-th entry request of a run has offset 200 * (k - 1); when a
\* request is sent every row received so far in the run has been upserted;
\* when the first is sent the categories and feeds the run fetched are in
\* the store as it upserted them.
C25_PageOrder ==
    /\ [][EntryRequest => run.offset = WindowLimit * hist.requests]_vars
    /\ [][EntryRequest
            => (/\ hist.pulled \subseteq Ids(hist.upserted)
                /\ run.total_seen = hist.received)]_vars
    /\ [][EntryRequest /\ hist.requests = 0
            => (/\ \A i \in DOMAIN run.categories :
                      Synced(run.categories[i]) \in categories
                /\ \A i \in DOMAIN run.feeds :
                      Synced(run.feeds[i]) \in feeds
                /\ run.summary.categories_pulled = Len(run.categories)
                /\ run.summary.feeds_pulled = Len(run.feeds))]_vars

\* the second page of a run has been requested, at offset 200, and upserted
C25_Witness ==
    /\ Succeeded
    /\ hist.requests = 2
    /\ run.offset = WindowLimit
    /\ run.total_seen > WindowLimit

GetEntriesPcs == {"full_get_entries", "inc_get_entries"}
UpsertEntriesPcs == {"full_upsert_entries", "inc_upsert_entries"}
AfterEntriesPcs == {"delete_stale_entries", "delete_removed_entries"}

\* C26: the entry pull ends after a response without rows and after a page
\* that brings the rows seen to the total of that response, and at no other
\* point; when the remote did not change during the run, a pull over N
\* entries has sent max(1, ceil(N / 200)) requests when it ends.
C26_PullTermination ==
    /\ [][(run.pc \in GetEntriesPcs /\ EntryRequest /\ run'.pc # "abort")
            => (run'.pc \in AfterEntriesPcs <=> Len(run'.page) = 0)]_vars
    /\ [][(run.pc \in UpsertEntriesPcs /\ run'.pc \notin {run.pc, "abort"})
            => (run'.pc \in AfterEntriesPcs
                  <=> run'.total_seen >= run.total)]_vars
    /\ [][run'.pc \in AfterEntriesPcs
            => run.pc \in GetEntriesPcs \cup UpsertEntriesPcs
                           \cup {run'.pc}]_vars
    /\ [](run.pc \in AfterEntriesPcs /\ ~hist.remote_changed
            => LET pages == (run.total + WindowLimit - 1) \div WindowLimit
               IN hist.requests = IF pages = 0 THEN 1 ELSE pages)

\* a pull over more than 200 unchanging entries has ended
C26_Witness ==
    /\ run.pc \in AfterEntriesPcs
    /\ ~hist.remote_changed
    /\ run.total > WindowLimit
    /\ hist.requests = 2

Pair(r) == << r.sync_in_progress, r.sync_error >>

ReadUnparsable ==
    /\ Incremental
    /\ IsSome(Snapshot.last_sync_at)
    /\ ~parse_rfc3339_to_epoch(Unwrap(Snapshot.last_sync_at)).ok

\* C29: an incremental run that read a last_sync_at that does not parse
\* sends its entry requests without changed_after, and its removed-entries
\* step deletes nothing and goes on to the feeds step.
C29_UnparsableLastSync ==
    /\ [][EntryRequest /\ ReadUnparsable
            => hist'.changed_after = None]_vars
    /\ [][(run.pc = "delete_removed_entries" /\ ReadUnparsable
           /\ run'.pc # run.pc)
            => (entries' = entries
                /\ run'.pc = "delete_removed_feeds")]_vars

\* such a run has pulled the removed entries, kept them, and succeeded
C29_Witness ==
    /\ Succeeded
    /\ ReadUnparsable
    /\ hist.requests = 1
    /\ \E e \in entries : e.user_id = RemoteUser /\ e.status = "removed"

\* C30: the step in which a request or a statement of a run fails changes
\* no entity table; from then on the run sends no request and changes no
\* entity table, its only step being the one that returns the error; and a
\* step of the run at a request leaves that request behind, whether the
\* request succeeds or fails.
C30_AbortsAtFirstError ==
    /\ [][run'.pc = "abort" /\ run.pc # "abort" => store' = store]_vars
    /\ [][run.pc = "abort"
            => (/\ store' = store
                /\ hist'.requests = hist.requests
                /\ run'.pc \in {"abort", "idle"}
                /\ run'.pc = "idle" => (/\ result'.status = "err"
                                        /\ result'.error = run.error))]_vars
    /\ [][(run.pc \in RemoteCallPcs /\ run'.waiting = run.waiting
           /\ run' # run)
            => run'.pc # run.pc]_vars

\* a run has failed at its second entry request, after it had upserted the
\* first page, and has returned the error
C30_Witness ==
    /\ Errored
    /\ result.error = "Request failed"
    /\ hist.requests = 1
    /\ run.total_seen = WindowLimit

\* C31: when the UPDATE of the error arm fails, the command returns the
\* error of the run, not that of the UPDATE, and writes no SyncState row;
\* sync_in_progress stays true as long as no later run has started, and
\* only the success update or the error update of a later run clears it.
C31_AbortWriteFails ==
    /\ [][hist'.write_failed # hist.write_failed
            => (/\ run.error # ""
                /\ result'.status = "err"
                /\ result'.error = run.error
                /\ sync_state' = sync_state
                /\ InProgress')]_vars
    /\ [](hist.write_failed > 0 /\ hist.write_failed = hist.runs
            => InProgress)
    /\ [][(hist.write_failed > 0 /\ InProgress /\ ~InProgress')
            => (/\ hist.runs > hist.write_failed
                /\ run.pc \in {"finish", "abort"})]_vars

\* a request of the run failed, the error update failed too, and the
\* command has returned the error of the request
C31_Witness ==
    /\ Errored
    /\ hist.write_failed = hist.runs
    /\ result.error = "Request failed"
    /\ Row.sync_in_progress
    /\ Row.sync_error = None

\* C32: an execution of the command starts its steps only while no other
\* execution is under way, the one before it having returned; and every
\* step that writes sync_state, sends a request or writes an entity table
\* is a step of the execution that holds the lock, not of an invocation
\* that arrives or waits.
C32_NoOverlap ==
    /\ [][hist'.runs # hist.runs
            => (/\ run.pc = "idle"
                /\ hist.runs > 0 => result.status # "none")]_vars
    /\ [][(\/ sync_state' # sync_state
           \/ store' # store
           \/ EntryRequest)
            => (/\ run.pc \notin {"idle", "emit_completed"}
                /\ hist'.runs = hist.runs
                /\ hist'.invoked = hist.invoked
                /\ run'.waiting = run.waiting)]_vars

\* the second invocation arrived while the first awaited the server, waited
\* for the lock, and is now the one that upserts the entries it pulled
C32_Witness ==
    /\ run.waited
    /\ hist.runs = MaxRuns
    /\ run.pc \in UpsertEntriesPcs
    /\ hist.requests > 0

\* an entry of the server's list that has been in it since before the run
\* started: the server never adds a row of the bulk import, and has not
\* changed at all where remote_changed is false
RemoteThroughout ==
    {remote_entries[i] : i \in {j \in DOMAIN remote_entries :
        remote_entries[j].id <= BulkSize \/ ~hist.remote_changed}}

\* C33: when a full sync has succeeded, every entry that was in the server's
\* list during the whole run is in the local store, once, with sync_status
\* 'synced', whatever the server added or removed between two page requests.
C33_FullSyncUnderChurn ==
    (Succeeded /\ run.is_full_sync)
        => \A e \in RemoteThroughout :
             \E r \in entries : /\ r.id = e.id
                                /\ r.user_id = run.user_id
                                /\ r.sync_status = "synced"

\* C34: in every entry request of a pull, the offset the request names is
\* the number of rows the pull has received so far, also after a response
\* that held fewer rows than the limit while total said that more remain.
C34_OffsetIsRowsReceived ==
    [][EntryRequest => run.offset = hist.received]_vars

\* the row of a table of the store that a key of stale_left names
Kept(k) ==
    {r \in (CASE k.table = "categories" -> categories
              [] k.table = "feeds" -> feeds
              [] OTHER -> entries) : r.id = k.id}

\* C35: when a full-sync run has returned an error, last_full_sync_at is
\* still NULL; the run after it takes the full-sync path; and when that run
\* has returned a summary, every row the failed run left stale is either no
\* longer in the store or has sync_status 'synced'.
C35_RetryAfterFailedFullSync ==
    /\ []((Errored /\ run.is_full_sync) => LastFullSyncAt = None)
    /\ [][(IsSome(hist.stale_left) /\ run.pc = "get_or_create_sync_state")
            => run'.is_full_sync]_vars
    /\ []((Succeeded /\ IsSome(hist.stale_left))
            => (/\ run.is_full_sync
                /\ \A k \in UNION SeqToSet(hist.stale_left) :
                     \A r \in Kept(k) : r.sync_status = "synced"))

\* a full sync failed and left stale rows; the run after it has succeeded,
\* one of those rows is synced again and one is gone
C35_Witness ==
    /\ Succeeded
    /\ IsSome(hist.stale_left)
    /\ \E k, l \in UNION SeqToSet(hist.stale_left) :
         /\ Kept(k) = {}
         /\ \E r \in Kept(l) : r.sync_status = "synced"

\* the entries the server stamped later than the instant the run that last
\* succeeded had captured at its start
ChangedSinceStart ==
    {remote_entries[i].id : i \in {j \in DOMAIN remote_entries :
        \E t \in SeqToSet(hist.success_started) :
            InstantOf(Unwrap(remote_entries[j].changed_at)) > t}}

\* C36: a run captures its instant in the step that starts it, before any
\* of its requests, and keeps it; the success update writes that instant to
\* last_sync_at; the changed_after of a request of the next incremental run
\* is not later than that instant; and the response to the first request of
\* that run lists every entry the server stamped later than that instant,
\* among them those changed while the successful run awaited the server.
C36_SyncWindow ==
    /\ [][hist'.runs # hist.runs
            => (run'.now = clock /\ hist'.requests = 0)]_vars
    /\ [][run.pc \notin {"idle", "emit_completed", "abort"}
            => run'.now = run.now]_vars
    /\ [][run.pc = "finish"
            => (/\ Row'.last_sync_at = Some(to_rfc3339(run.now))
                /\ hist'.success_started = Some(run.now))]_vars
    /\ [][(EntryRequest /\ Incremental)
            => (/\ IsSome(hist'.changed_after)
                /\ \A c \in SeqToSet(hist'.changed_after),
                      t \in SeqToSet(hist.success_started) : c * 10 <= t
                /\ run.offset = 0
                     => ChangedSinceStart \subseteq Ids(SeqToSet(run'.page)))]_vars

\* the first run started at 0.5 s; while it awaited the server, half a
\* second later, an entry was removed there; the run succeeded, and the next
\* run, an incremental one, has received that entry
C36_Witness ==
    /\ run.pc = "inc_upsert_entries"
    /\ hist.success_started = Some(5)
    /\ hist.changed_after = Some(0)
    /\ \E i \in DOMAIN run.page :
         /\ run.page[i].status = "removed"
         /\ InstantOf(Unwrap(run.page[i].changed_at)) = 10
         /\ \E e \in entries : e.id = run.page[i].id /\ e.status = "unread"

\* C37: when a run, full or incremental, has returned a summary, the store
\* holds no entry of the authenticated user with status removed that the
\* run had pulled.
C37_NoPulledRemovedEntry ==
    Succeeded =>
        \A e \in entries :
            ~(/\ e.user_id = run.user_id
              /\ e.status = "removed"
              /\ e.id \in hist.pulled)

\* the step of an invocation that neither gets the client lock nor waits
\* for it
Rejected ==
    /\ hist'.invoked = hist.invoked + 1
    /\ hist'.runs = hist.runs
    /\ run'.waiting = run.waiting

\* C38: an invocation of the command that finds no pool or no client
\* returns an error in a step that leaves sync_state and the category, feed
\* and entry tables as they are and emits sync-started only; and only such
\* an invocation returns one of the two errors.
C38_UnavailableRejected ==
    /\ [][Rejected
            => (/\ result'.status = "err"
                /\ result'.error \in Unavailable
                /\ sync_state' = sync_state
                /\ store' = store
                /\ run'.events = << SyncStarted >>)]_vars
    /\ [][(result'.error \in Unavailable /\ result' # result)
            => Rejected]_vars

\* after a run that succeeded, an invocation has found no client and has
\* returned the error; the SyncState row is as the run left it
C38_Witness ==
    /\ result.status = "err"
    /\ result.error = "Not connected to Miniflux server"
    /\ hist.successes = 1
    /\ hist.invoked = MaxRuns
    /\ Row.sync_error = None
    /\ ~Row.sync_in_progress
    /\ Emitted("sync-completed") = {}

\* C39: when every call of save_miniflux_account that was made has
\* completed, whatever the usernames of the calls and however their
\* statements interleaved, at most one account is active.
C39_OneActiveAfterCalls ==
    (/\ \A c \in DOMAIN run : run[c].pc \in {"idle", "done"}
     /\ \E c \in DOMAIN run : run[c].pc = "done")
        => Cardinality(ActiveAccounts) <= 1

\* C40: once cancel_download has put the Cancelled state of a download into
\* active_downloads, no step adds a Completed state with the id of that
\* download to the list, and no step sets the status of its downloads row
\* to 'completed'.
C40_CancelledNeverCompleted ==
    [][\A id \in hist.cancelled :
         /\ \A i \in DOMAIN active_downloads' :
              (active_downloads'[i].state = "Completed"
               /\ active_downloads'[i].id = id)
                 => i \in DOMAIN active_downloads
         /\ \A r \in downloads' :
              (r.id = id /\ r.status = "completed")
                 => r \in downloads]_vars
====
